---- MODULE Spec2Model ----
(***************************************************************************)
(* Verification model of the Quoridor rules engine (quoridor-core).        *)
(* The board is the struct Quoridor of game.rs, held in the variable       *)
(* game; every method of the struct is an operator from a board value (and *)
(* the call's arguments) to the method's outcome, so that the same         *)
(* operators serve the authoritative board and the clones the search       *)
(* strategies explore.  Move strings are sequences of one-character        *)
(* strings and are parsed and formatted as utils.rs does.                  *)
(***************************************************************************)
EXTENDS Integers, Sequences, FiniteSets, TLC

VARIABLES
    game,       \* the authoritative Quoridor value
    aborted,    \* TRUE once a call has panicked: the process is gone
    last,       \* the last call made on the board and its outcome
    moves,      \* number of accepted calls so far
    strategies, \* the strategy object playing for each player
    chosen,     \* what the last choose_move returned
    status,     \* where the match stands: playing, won, forfeit, illegal
    mcts,       \* the locals of a run of MCTSStrategy::run_search
    notation,   \* a coordinate, its algebraic notation, and that decoded
    anneal,     \* the locals of a run of SimulatedAnnealingStrategy::choose_move
    tournament  \* the threads and the shared state of a parallel tournament

vars == <<game, aborted, last, moves, strategies, chosen, status, mcts, notation,
          anneal, tournament>>

-----------------------------------------------------------------------------
(* Board parameters and the bounds of the exploration.                     *)

\* Quoridor::new accepts odd sizes >= 3; the model uses the smallest board.
Size == 3

\* Initial walls per player (the constructor's `walls` argument).
Walls == 2

\* Cap on the number of accepted calls explored from the fresh board.
MaxMoves == 3

\* distance_to_goal's "no path" value.
Unreachable == 100

Player1 == "player1"
Player2 == "player2"
Players == {Player1, Player2}

\* Player::opponent
Opponent(p) == IF p = Player1 THEN Player2 ELSE Player1

\* Player::number
PlayerNumber(p) == IF p = Player1 THEN 1 ELSE 2

Rows == 0 .. (Size - 1)
Cells == Rows \X Rows

-----------------------------------------------------------------------------
(* Characters and strings.  A string is a sequence of characters, a        *)
(* character a one-character TLA+ string.                                   *)

LowerCase == <<"a", "b", "c", "d", "e", "f", "g", "h", "i", "j", "k", "l", "m",
               "n", "o", "p", "q", "r", "s", "t", "u", "v", "w", "x", "y", "z">>
UpperCase == <<"A", "B", "C", "D", "E", "F", "G", "H", "I", "J", "K", "L", "M",
               "N", "O", "P", "Q", "R", "S", "T", "U", "V", "W", "X", "Y", "Z">>
DigitChars == <<"0", "1", "2", "3", "4", "5", "6", "7", "8", "9">>

Range(s) == {s[i] : i \in DOMAIN s}

IndexOf(s, ch) == CHOOSE i \in DOMAIN s : s[i] = ch

\* char::is_ascii_alphabetic
IsAsciiAlphabetic(ch) == ch \in Range(LowerCase) \cup Range(UpperCase)

\* char::to_ascii_lowercase
ToAsciiLowercase(ch) ==
    IF ch \in Range(UpperCase) THEN LowerCase[IndexOf(UpperCase, ch)] ELSE ch

\* usize::to_string : decimal digits, most significant first
RECURSIVE UsizeToString(_)
UsizeToString(n) ==
    IF n < 10 THEN <<DigitChars[n + 1]>>
    ELSE UsizeToString(n \div 10) \o <<DigitChars[(n % 10) + 1]>>

RECURSIVE DigitsValue(_)
DigitsValue(s) ==
    IF s = <<>> THEN 0
    ELSE 10 * DigitsValue(SubSeq(s, 1, Len(s) - 1)) + (IndexOf(DigitChars, s[Len(s)]) - 1)

\* str::parse::<usize> : an optional '+', then one or more decimal digits.
\* The result is [ok |-> BOOLEAN, val |-> Nat].
ParseUsize(s) ==
    LET body == IF Len(s) > 0 /\ s[1] = "+" THEN SubSeq(s, 2, Len(s)) ELSE s
    IN  IF Len(body) > 0 /\ \A i \in DOMAIN body : body[i] \in Range(DigitChars)
        THEN [ok |-> TRUE, val |-> DigitsValue(body)]
        ELSE [ok |-> FALSE, val |-> 0]

\* The outcome of a decoding that panicked.
Panic == [panic |-> TRUE, coord |-> <<0, 0>>]

\* utils::algebraic_to_coord : [panic |-> BOOLEAN, coord |-> Coord]
AlgebraicToCoord(square, board_size) ==
    LET n == Len(square)
        pos_str == IF n > 2 /\ square[n] \in {"h", "v"} THEN SubSeq(square, 1, 2) ELSE square
    IN  IF Len(pos_str) < 2 THEN Panic
        ELSE IF ~IsAsciiAlphabetic(pos_str[1]) THEN Panic
        ELSE
          LET col == IndexOf(LowerCase, ToAsciiLowercase(pos_str[1])) - 1
              row_num == ParseUsize(SubSeq(pos_str, 2, Len(pos_str)))
          IN  IF ~(row_num.ok /\ row_num.val >= 1 /\ row_num.val <= board_size) THEN Panic
              ELSE IF board_size - row_num.val >= board_size \/ col >= board_size THEN Panic
              ELSE [panic |-> FALSE, coord |-> <<board_size - row_num.val, col>>]

\* coord_to_algebraic numbering the rows from the top
CoordToAlgebraicFromTop(coord, board_size) ==
    <<LowerCase[coord[2] + 1]>> \o UsizeToString(coord[1] + 1)

\* utils::coord_to_algebraic (called on board coordinates only)
CoordToAlgebraic(coord, board_size) ==
    <<LowerCase[coord[2] + 1]>> \o UsizeToString(board_size - coord[1])

\* Quoridor::coord_to_algebraic
Label(coord) == CoordToAlgebraic(coord, Size)

-----------------------------------------------------------------------------
(* The board graph (graph.rs).  An edge is the set of its two end cells.   *)

\* usize::MAX, the marker of the edge that does not exist
UsizeMax == -1

OnBoard(coord) == coord \in Cells

\* graph::initialize_board_graph
InitializeBoardGraph(size) ==
    {{<<r, c>>, <<r, c + 1>>} : r \in 0 .. (size - 1), c \in 0 .. (size - 2)}
      \cup {{<<r, c>>, <<r + 1, c>>} : r \in 0 .. (size - 2), c \in 0 .. (size - 1)}

\* UnGraph::contains_edge / find_edge
ContainsEdge(graph, u, v) == {u, v} \in graph

\* UnGraph::neighbors
Neighbors(graph, u) == {v \in Cells : {u, v} \in graph}

NoEdges == [some |-> FALSE, edges |-> <<>>]

\* graph::get_blocked_edges_by_wall : Option<[(Coord, Coord); 2]>
GetBlockedEdgesByWall(wall_coord, orientation, size) ==
    LET r == wall_coord[1]
        c == wall_coord[2]
    IN  CASE orientation = "h" ->
               IF r > 0 /\ c + 1 < size
               THEN [some |-> TRUE,
                     edges |-> << <<(<<r - 1, c>>), (<<r, c>>)>>,
                                  <<(<<r - 1, c + 1>>), (<<r, c + 1>>)>> >>]
               ELSE NoEdges
          [] orientation = "v" ->
               IF r > 0 /\ c + 1 < size
               THEN [some |-> TRUE,
                     edges |-> << <<(<<r, c>>), (<<r, c + 1>>)>>,
                                  <<(<<r - 1, c>>), (<<r - 1, c + 1>>)>> >>]
               ELSE IF r = 0 /\ c + 1 < size
               THEN [some |-> TRUE,
                     edges |-> << <<(<<r, c>>), (<<r, c + 1>>)>>,
                                  <<(<<UsizeMax, UsizeMax>>), (<<UsizeMax, UsizeMax>>)>> >>]
               ELSE NoEdges
          [] OTHER -> NoEdges

\* The edges left by `.filter(|(u,_)| u.0 != usize::MAX)`
RealEdges(edges) == {edges[i] : i \in {j \in DOMAIN edges : edges[j][1][1] # UsizeMax}}

\* Cells connected to the cells of `seen` (petgraph's traversal)
RECURSIVE ReachFrom(_, _, _)
ReachFrom(graph, frontier, seen) ==
    LET next == {v \in Cells : \E u \in frontier : {u, v} \in graph} \ seen
    IN  IF next = {} THEN seen ELSE ReachFrom(graph, next, seen \cup next)

\* petgraph::algo::has_path_connecting
HasPathConnecting(graph, from, to) == to \in ReachFrom(graph, {from}, {from})

\* Player 1 runs to row 0, Player 2 to row size-1 (Quoridor::new)
GoalPositions(p) ==
    IF p = Player1 THEN {<<0, c>> : c \in Rows} ELSE {<<Size - 1, c>> : c \in Rows}

\* CheckWallPathBlocking with the search for a path left out
CheckWallPathBlockingNoSearch(graph, pawn_positions) ==
    \A p \in Players : OnBoard(pawn_positions[p])

\* CheckWallPathBlocking looking for the first player's path only
CheckWallPathBlockingFirstPlayerOnly(graph, pawn_positions) ==
    \E goal \in GoalPositions(Player1) :
        HasPathConnecting(graph, pawn_positions[Player1], goal)

\* graph::check_wall_path_blocking
CheckWallPathBlocking(graph, pawn_positions) ==
    \A p \in Players :
        \E goal \in GoalPositions(p) : HasPathConnecting(graph, pawn_positions[p], goal)

\* Unit-cost dijkstra from `frontier`, `d` steps already walked: the least
\* distance to a cell of `targets`, usize::MAX if none is reachable.
RECURSIVE MinDist(_, _, _, _, _)
MinDist(graph, frontier, seen, targets, d) ==
    IF frontier \cap targets # {} THEN d
    ELSE CHOOSE dist \in
           {IF next = {} THEN UsizeMax
            ELSE MinDist(graph, next, seen \cup next, targets, d + 1) :
              next \in {{v : v \in {w \in Cells : \E u \in frontier : {u, w} \in graph}
                                   \ seen}}} : TRUE

\* graph::get_shortest_path_len
GetShortestPathLen(graph, start_coord, goal_coords) ==
    IF OnBoard(start_coord)
    THEN MinDist(graph, {start_coord}, {start_coord}, goal_coords, 0)
    ELSE UsizeMax

-----------------------------------------------------------------------------
(* The struct Quoridor and its methods (game.rs).  A board value is a      *)
(* record of the struct's fields; size and goal_positions never change and *)
(* are the definitions Size and GoalPositions, node_indices is the set     *)
(* Cells.                                                                   *)

\* Walls before(a, b) in the order of update_state_string's sort_by:
\* row descending, then column ascending.
WallBefore(a, b) == a[1] > b[1] \/ (a[1] = b[1] /\ a[2] < b[2])

RECURSIVE SortedLabels(_)
SortedLabels(coords) ==
    IF coords = {} THEN <<>>
    ELSE LET first == CHOOSE a \in coords : \A b \in coords \ {a} : WallBefore(a, b)
         IN  CoordToAlgebraic(first, Size) \o SortedLabels(coords \ {first})

Sep == <<" ", "/", " ">>

\* update_state_string that never hands the turn over
UpdateStateStringKeepingTurn(g, keep_player) ==
    [g EXCEPT
       !.state_string =
           SortedLabels(g.hwall_positions) \o Sep
             \o SortedLabels(g.vwall_positions) \o Sep
             \o CoordToAlgebraic(g.pawn_positions[Player1], Size) \o <<" ">>
             \o CoordToAlgebraic(g.pawn_positions[Player2], Size) \o Sep
             \o UsizeToString(g.walls_available[Player1]) \o <<" ">>
             \o UsizeToString(g.walls_available[Player2]) \o Sep
             \o UsizeToString(PlayerNumber(g.active_player))]

\* Quoridor::update_state_string
UpdateStateString(g, keep_player) ==
    LET active == IF keep_player THEN g.active_player ELSE Opponent(g.active_player)
    IN  [g EXCEPT
           !.active_player = active,
           !.state_string =
               SortedLabels(g.hwall_positions) \o Sep
                 \o SortedLabels(g.vwall_positions) \o Sep
                 \o CoordToAlgebraic(g.pawn_positions[Player1], Size) \o <<" ">>
                 \o CoordToAlgebraic(g.pawn_positions[Player2], Size) \o Sep
                 \o UsizeToString(g.walls_available[Player1]) \o <<" ">>
                 \o UsizeToString(g.walls_available[Player2]) \o Sep
                 \o UsizeToString(PlayerNumber(active))]

\* Quoridor::new(size, walls, None)
NewGame(walls) ==
    UpdateStateString(
        [graph |-> InitializeBoardGraph(Size),
         hwall_positions |-> {},
         vwall_positions |-> {},
         pawn_positions |-> [p \in Players |->
                               IF p = Player1 THEN <<Size - 1, Size \div 2>>
                                              ELSE <<0, Size \div 2>>],
         walls_available |-> [p \in Players |-> walls],
         active_player |-> Player1,
         state_string |-> <<>>,
         previous_state |-> <<>>,
         last_move |-> <<"N", "o", "n", "e">>],
        TRUE)

\* get_legal_moves without the `continue` after a straight jump: the
\* opponent's other neighbours are offered as well
GetLegalMovesNoContinue(g, player) ==
    LET own_pos == g.pawn_positions[player]
        opponent_pos == g.pawn_positions[Opponent(player)]
        jump_pos == <<own_pos[1] + 2 * (opponent_pos[1] - own_pos[1]),
                      own_pos[2] + 2 * (opponent_pos[2] - own_pos[2])>>
        Around(neighbor_pos) ==
            IF neighbor_pos = opponent_pos
            THEN (IF OnBoard(jump_pos) /\ ContainsEdge(g.graph, opponent_pos, jump_pos)
                  THEN {jump_pos} ELSE {})
                   \cup (Neighbors(g.graph, opponent_pos) \ {own_pos})
            ELSE {neighbor_pos}
        legal_coords == UNION {Around(n) : n \in Neighbors(g.graph, own_pos)}
    IN  {CoordToAlgebraic(coord, Size) : coord \in legal_coords}

\* get_legal_moves stepping to the cells next to the pawn on the grid,
\* whether or not a wall lies between
GetLegalMovesThroughWalls(g, player) ==
    LET own_pos == g.pawn_positions[player]
        opponent_pos == g.pawn_positions[Opponent(player)]
        jump_pos == <<own_pos[1] + 2 * (opponent_pos[1] - own_pos[1]),
                      own_pos[2] + 2 * (opponent_pos[2] - own_pos[2])>>
        Around(neighbor_pos) ==
            IF neighbor_pos = opponent_pos
            THEN IF OnBoard(jump_pos) /\ ContainsEdge(g.graph, opponent_pos, jump_pos)
                 THEN {jump_pos}
                 ELSE Neighbors(g.graph, opponent_pos) \ {own_pos}
            ELSE {neighbor_pos}
        legal_coords ==
            UNION {Around(n) : n \in Neighbors(InitializeBoardGraph(Size), own_pos)}
    IN  {CoordToAlgebraic(coord, Size) : coord \in legal_coords}

\* Quoridor::get_legal_moves : the labels collected from the HashSet
\* get_legal_moves without the jump rules: every neighbouring cell is a move
GetLegalMovesOntoOpponent(g, player) ==
    {CoordToAlgebraic(coord, Size) : coord \in Neighbors(g.graph, g.pawn_positions[player])}

GetLegalMoves(g, player) ==
    LET own_pos == g.pawn_positions[player]
        opponent_pos == g.pawn_positions[Opponent(player)]
        jump_pos == <<own_pos[1] + 2 * (opponent_pos[1] - own_pos[1]),
                      own_pos[2] + 2 * (opponent_pos[2] - own_pos[2])>>
        Around(neighbor_pos) ==
            IF neighbor_pos = opponent_pos
            THEN IF OnBoard(jump_pos) /\ ContainsEdge(g.graph, opponent_pos, jump_pos)
                 THEN {jump_pos}
                 ELSE LET jump_blocked ==
                              IF OnBoard(jump_pos)
                              THEN ~ContainsEdge(g.graph, opponent_pos, jump_pos)
                              ELSE TRUE
                      IN  IF jump_blocked
                          THEN Neighbors(g.graph, opponent_pos) \ {own_pos}
                          ELSE {}
            ELSE {neighbor_pos}
        legal_coords == UNION {Around(n) : n \in Neighbors(g.graph, own_pos)}
    IN  {CoordToAlgebraic(coord, Size) : coord \in legal_coords}

\* The overlap checks without the two crossing checks at the wall's own anchor
HasWallConflictNoCrossing(hw, vw, wall_coord, orientation) ==
    LET r == wall_coord[1]
        c == wall_coord[2]
    IN  CASE orientation = "h" ->
               \/ wall_coord \in hw
               \/ (c > 0 /\ <<r, c - 1>> \in hw)
               \/ (c + 1 < Size - 1 /\ <<r, c + 1>> \in hw)
               \/ (c + 1 < Size /\ <<r, c + 1>> \in vw)
          [] orientation = "v" ->
               \/ wall_coord \in vw
               \/ (r > 1 /\ <<r - 1, c>> \in vw)
               \/ (r + 1 < Size /\ <<r + 1, c>> \in vw)
               \/ (r + 1 < Size /\ <<r + 1, c>> \in hw)
          [] OTHER -> TRUE

\* Quoridor::is_wall_placement_valid, step 2: overlaps and intersections
HasWallConflict(hw, vw, wall_coord, orientation) ==
    LET r == wall_coord[1]
        c == wall_coord[2]
    IN  CASE orientation = "h" ->
               \/ wall_coord \in hw
               \/ (c > 0 /\ <<r, c - 1>> \in hw)
               \/ (c + 1 < Size - 1 /\ <<r, c + 1>> \in hw)
               \/ wall_coord \in vw
               \/ (c + 1 < Size /\ <<r, c + 1>> \in vw)
          [] orientation = "v" ->
               \/ wall_coord \in vw
               \/ (r > 1 /\ <<r - 1, c>> \in vw)
               \/ (r + 1 < Size /\ <<r + 1, c>> \in vw)
               \/ wall_coord \in hw
               \/ (r + 1 < Size /\ <<r + 1, c>> \in hw)
          [] OTHER -> TRUE

\* is_wall_placement_valid without its test of the walls available
IsWallPlacementValidIgnoringCount(g, player, wall_coord, orientation) ==
    LET blocked == GetBlockedEdgesByWall(wall_coord, orientation, Size)
        to_remove == RealEdges(blocked.edges)
    IN  IF HasWallConflict(g.hwall_positions, g.vwall_positions, wall_coord, orientation)
        THEN FALSE
        ELSE IF ~blocked.some THEN FALSE
        ELSE IF \E e \in to_remove :
                    ~(OnBoard(e[1]) /\ OnBoard(e[2]) /\ ContainsEdge(g.graph, e[1], e[2]))
             THEN FALSE
        ELSE CheckWallPathBlocking(g.graph \ {{e[1], e[2]} : e \in to_remove},
                                   g.pawn_positions)

\* Quoridor::is_wall_placement_valid
IsWallPlacementValid(g, player, wall_coord, orientation) ==
    LET blocked == GetBlockedEdgesByWall(wall_coord, orientation, Size)
        to_remove == RealEdges(blocked.edges)
    IN  IF g.walls_available[player] = 0 THEN FALSE
        ELSE IF HasWallConflict(g.hwall_positions, g.vwall_positions, wall_coord, orientation)
             THEN FALSE
        ELSE IF ~blocked.some THEN FALSE
        ELSE IF \E e \in to_remove :
                    ~(OnBoard(e[1]) /\ OnBoard(e[2]) /\ ContainsEdge(g.graph, e[1], e[2]))
             THEN FALSE
        ELSE CheckWallPathBlocking(g.graph \ {{e[1], e[2]} : e \in to_remove},
                                   g.pawn_positions)

\* The anchors get_legal_walls visits, in its order: r in 1..size-1,
\* c in 0..size-2, horizontal before vertical.
WallCandidates ==
    [i \in 1 .. 2 * (Size - 1) * (Size - 1) |->
        LET k == (i - 1) \div 2
        IN  [coord |-> <<1 + (k \div (Size - 1)), k % (Size - 1)>>,
             orientation |-> IF (i - 1) % 2 = 0 THEN "h" ELSE "v"]]

WallLabel(w) == CoordToAlgebraic(w.coord, Size) \o <<w.orientation>>

\* Quoridor::get_legal_walls : the Vec of wall moves
GetLegalWalls(g, player) ==
    IF g.walls_available[player] = 0 THEN <<>>
    ELSE LET Valid(w) == IsWallPlacementValid(g, player, w.coord, w.orientation)
             kept == SelectSeq(WallCandidates, Valid)
         IN  [i \in DOMAIN kept |-> WallLabel(kept[i])]

\* The outcome of a call that returns a bool and may change the board.
Returned(ret, g) == [panic |-> FALSE, ret |-> ret, game |-> g]
Panicked(g) == [panic |-> TRUE, ret |-> FALSE, game |-> g]

\* add_wall_internal removing only the first of the blocked edges
AddWallInternalFirstEdgeOnly(g, wall_move, is_initialising) ==
    IF Len(wall_move) = 0 THEN Returned(FALSE, g)
    ELSE
      LET orientation == wall_move[Len(wall_move)]
          decoded == AlgebraicToCoord(SubSeq(wall_move, 1, Len(wall_move) - 1), Size)
          wall_coord == decoded.coord
          blocked == GetBlockedEdgesByWall(wall_coord, orientation, Size)
          severed == IF blocked.some
                     THEN {{blocked.edges[1][1], blocked.edges[1][2]}}
                     ELSE {}
          placed == [g EXCEPT
                       !.hwall_positions = IF orientation = "h" THEN @ \cup {wall_coord} ELSE @,
                       !.vwall_positions = IF orientation = "v" THEN @ \cup {wall_coord} ELSE @,
                       !.graph = @ \ severed]
      IN  IF decoded.panic THEN Panicked(g)
          ELSE IF orientation \notin {"h", "v"} THEN Returned(FALSE, g)
          ELSE IF is_initialising THEN Returned(TRUE, placed)
          ELSE IF g.walls_available[g.active_player] = 0
               THEN Panicked([placed EXCEPT !.previous_state = g.state_string])
          ELSE Returned(TRUE,
                 UpdateStateString(
                   [placed EXCEPT
                      !.previous_state = g.state_string,
                      !.walls_available[g.active_player] = @ - 1,
                      !.last_move = wall_move],
                   FALSE))

\* Quoridor::add_wall_internal
AddWallInternal(g, wall_move, is_initialising) ==
    IF Len(wall_move) = 0 THEN Returned(FALSE, g)
    ELSE
      LET orientation == wall_move[Len(wall_move)]
          decoded == AlgebraicToCoord(SubSeq(wall_move, 1, Len(wall_move) - 1), Size)
          wall_coord == decoded.coord
          blocked == GetBlockedEdgesByWall(wall_coord, orientation, Size)
          severed == IF blocked.some
                     THEN {{e[1], e[2]} : e \in {x \in RealEdges(blocked.edges) :
                                                    OnBoard(x[1]) /\ OnBoard(x[2])}}
                     ELSE {}
          placed == [g EXCEPT
                       !.hwall_positions = IF orientation = "h" THEN @ \cup {wall_coord} ELSE @,
                       !.vwall_positions = IF orientation = "v" THEN @ \cup {wall_coord} ELSE @,
                       !.graph = @ \ severed]
      IN  IF decoded.panic THEN Panicked(g)
          ELSE IF orientation \notin {"h", "v"} THEN Returned(FALSE, g)
          ELSE IF is_initialising THEN Returned(TRUE, placed)
          \* `-= 1` on a usize that is 0: the overflow check panics
          ELSE IF g.walls_available[g.active_player] = 0
               THEN Panicked([placed EXCEPT !.previous_state = g.state_string])
          ELSE Returned(TRUE,
                 UpdateStateString(
                   [placed EXCEPT
                      !.previous_state = g.state_string,
                      !.walls_available[g.active_player] = @ - 1,
                      !.last_move = wall_move],
                   FALSE))

\* Quoridor::add_wall
AddWall(g, wall_move, is_initialising, check) ==
    IF Len(wall_move) < 3 THEN Returned(FALSE, g)
    ELSE
      LET orientation == wall_move[Len(wall_move)]
          decoded == AlgebraicToCoord(SubSeq(wall_move, 1, Len(wall_move) - 1), Size)
      IN  IF orientation \notin {"h", "v"} THEN Returned(FALSE, g)
          ELSE IF decoded.panic THEN Panicked(g)
          ELSE IF check /\ ~IsWallPlacementValid(g, g.active_player, decoded.coord, orientation)
               THEN Returned(FALSE, g)
          ELSE AddWallInternal(g, wall_move, is_initialising)

\* move_pawn moving the pawn before it validates the move
MovePawnBeforeCheck(g, move_alg, check) ==
    LET decoded == AlgebraicToCoord(move_alg, Size)
        moved == [g EXCEPT !.pawn_positions[g.active_player] = decoded.coord]
    IN  IF decoded.panic THEN Panicked(g)
        ELSE IF check /\ move_alg \notin GetLegalMoves(g, g.active_player)
             THEN Returned(FALSE, moved)
        ELSE Returned(TRUE,
               UpdateStateString(
                 [moved EXCEPT !.previous_state = g.state_string, !.last_move = move_alg],
                 FALSE))

\* move_pawn moving the pawn of the player the turn passes to
MovePawnOfNextPlayer(g, move_alg, check) ==
    LET decoded == AlgebraicToCoord(move_alg, Size)
    IN  IF decoded.panic THEN Panicked(g)
        ELSE IF check /\ move_alg \notin GetLegalMoves(g, g.active_player)
             THEN Returned(FALSE, g)
        ELSE Returned(TRUE,
               UpdateStateString(
                 [g EXCEPT
                    !.pawn_positions[Opponent(g.active_player)] = decoded.coord,
                    !.previous_state = g.state_string,
                    !.last_move = move_alg],
                 FALSE))

\* Quoridor::move_pawn
MovePawn(g, move_alg, check) ==
    LET decoded == AlgebraicToCoord(move_alg, Size)
    IN  IF decoded.panic THEN Panicked(g)
        ELSE IF check /\ move_alg \notin GetLegalMoves(g, g.active_player)
             THEN Returned(FALSE, g)
        ELSE Returned(TRUE,
               UpdateStateString(
                 [g EXCEPT
                    !.pawn_positions[g.active_player] = decoded.coord,
                    !.previous_state = g.state_string,
                    !.last_move = move_alg],
                 FALSE))

\* A win_check that accepts no move
WinCheckNever(g, move_alg) == FALSE

\* win_check without the test of the length: a wall move counts by its cell
WinCheckAnyLength(g, move_alg) ==
    LET destination == AlgebraicToCoord(move_alg, Size)
    IN  /\ ~destination.panic
        /\ destination.coord \in GoalPositions(g.active_player)

\* Quoridor::win_check panics: a string of length 2 that algebraic_to_coord
\* refuses
WinCheckPanics(move_alg) ==
    Len(move_alg) = 2 /\ AlgebraicToCoord(move_alg, Size).panic

\* Quoridor::win_check, the value it returns (none where it panics)
WinCheck(g, move_alg) ==
    IF Len(move_alg) # 2 THEN FALSE
    ELSE LET destination == AlgebraicToCoord(move_alg, Size)
         IN  /\ ~destination.panic
             /\ destination.coord \in GoalPositions(g.active_player)

\* distance_to_goal handing on what get_shortest_path_len returns
DistanceToGoalRaw(g, player) ==
    GetShortestPathLen(g.graph, g.pawn_positions[player], GoalPositions(player))

\* Quoridor::distance_to_goal
DistanceToGoal(g, player) ==
    LET dist == GetShortestPathLen(g.graph, g.pawn_positions[player], GoalPositions(player))
    IN  IF dist = UsizeMax THEN Unreachable ELSE dist

\* moves_to_next_row measuring the way to the goal rank
MovesToNextRowToGoal(g, player) == DistanceToGoal(g, player)

\* Quoridor::moves_to_next_row
MovesToNextRow(g, player) ==
    LET start_coord == g.pawn_positions[player]
        at_goal == IF player = Player1 THEN start_coord[1] = 0
                                       ELSE start_coord[1] = Size - 1
        target_row == IF player = Player1 THEN start_coord[1] - 1
                                          ELSE start_coord[1] + 1
        target_nodes == {<<target_row, c>> : c \in Rows}
        min_dist == MinDist(g.graph, {start_coord}, {start_coord}, target_nodes, 0)
    IN  IF ~OnBoard(start_coord) THEN Unreachable
        ELSE IF at_goal THEN 0
        ELSE IF min_dist = UsizeMax THEN Unreachable ELSE min_dist

-----------------------------------------------------------------------------
(* The strategies (strategy/base.rs, mcts.rs, minimax.rs,                  *)
(* simulated_annealing.rs).  A strategy object is its kind and the fields  *)
(* of its QuoridorStrategy base.  choose_move draws on a random generator  *)
(* and on a search over cloned boards; it is modelled by the set of the    *)
(* outcomes it can have: the move it returns and the object it leaves.     *)

None == [some |-> FALSE, value |-> <<>>]
Some(m) == [some |-> TRUE, value |-> m]

Resign == <<"r", "e", "s", "i", "g", "n">>

\* legal_pawn.into_iter().chain(legal_walls.into_iter()), as a set
AllMoves(g, player) == GetLegalMoves(g, player) \cup Range(GetLegalWalls(g, player))

\* The legal pawn moves that win_check accepts
WinningMoves(g, player) == {m \in GetLegalMoves(g, player) : WinCheck(g, m)}

\* try_opening_move returning the scripted move without looking at the board
TryOpeningMoveUnchecked(base, g) ==
    IF base.move_counter < Len(base.opening_moves)
    THEN [move |-> Some(base.opening_moves[base.move_counter + 1]),
          base |-> [base EXCEPT !.move_counter = @ + 1]]
    ELSE [move |-> None, base |-> base]

\* try_opening_move leaving the counter on a scripted move it found illegal
TryOpeningMoveRetrying(base, g) ==
    IF base.move_counter < Len(base.opening_moves)
    THEN LET move_str == base.opening_moves[base.move_counter + 1]
         IN  IF move_str \in GetLegalMoves(g, g.active_player)
                \/ move_str \in Range(GetLegalWalls(g, g.active_player))
             THEN [move |-> Some(move_str), base |-> [base EXCEPT !.move_counter = @ + 1]]
             ELSE [move |-> None, base |-> base]
    ELSE [move |-> None, base |-> base]

\* try_opening_move that takes the scripted move out of the book instead of
\* counting past it
TryOpeningMoveConsuming(base, g) ==
    IF base.move_counter < Len(base.opening_moves)
    THEN LET move_str == base.opening_moves[base.move_counter + 1]
             rest == [base EXCEPT !.opening_moves = Tail(@)]
         IN  IF move_str \in GetLegalMoves(g, g.active_player)
                \/ move_str \in Range(GetLegalWalls(g, g.active_player))
             THEN [move |-> Some(move_str), base |-> rest]
             ELSE [move |-> None, base |-> rest]
    ELSE [move |-> None, base |-> base]

\* QuoridorStrategy::try_opening_move
TryOpeningMove(base, g) ==
    IF base.move_counter < Len(base.opening_moves)
    THEN LET move_str == base.opening_moves[base.move_counter + 1]
         IN  IF move_str \in GetLegalMoves(g, g.active_player)
                \/ move_str \in Range(GetLegalWalls(g, g.active_player))
             THEN [move |-> Some(move_str), base |-> [base EXCEPT !.move_counter = @ + 1]]
             ELSE [move |-> None, base |-> [base EXCEPT !.move_counter = @ + 1]]
    ELSE [move |-> None, base |-> base]

\* MCTSStrategy::run_search : the strings it can return.  With no root move
\* it returns "resign", with one root move that move; otherwise the move of
\* the most visited root child, or a random root move when the root has no
\* child.  Every root child carries a root move, and which child is most
\* visited rests on the random playouts.
RunSearch(g) ==
    LET root_moves == AllMoves(g, g.active_player)
    IN  IF root_moves = {} THEN {Resign} ELSE root_moves

\* MCTSStrategy::choose_move, after the opening book
MCTSSearch(g) ==
    {IF best_move = Resign THEN None ELSE Some(best_move) : best_move \in RunSearch(g)}

\* The depth the Minimax strategies of the model are constructed with
Depth == 1

\* f64 scores.  A score is minus infinity, plus infinity or the fraction
\* n / d with d > 0; the evaluation's decimal weights are carried as
\* integers over 10000.  Scores are compared as the exact fractions.
NegInfinity == [inf |-> -1, n |-> 0, d |-> 1]
Infinity == [inf |-> 1, n |-> 0, d |-> 1]
Finite(n, d) == [inf |-> 0, n |-> n, d |-> d]

\* a < b on scores
ScoreLess(a, b) ==
    IF a.inf # 0 \/ b.inf # 0 THEN a.inf < b.inf
    ELSE a.n * b.d < b.n * a.d

\* a <= b on scores
ScoreLessEq(a, b) == ~ScoreLess(b, a)

\* f64::max and f64::min
ScoreMax(a, b) == IF ScoreLess(a, b) THEN b ELSE a
ScoreMin(a, b) == IF ScoreLess(b, a) THEN b ELSE a

\* MinimaxStrategy::evaluate_state : 0.6001 * (p2_dist - p1_dist)
\* + 14.45 * f3 - 6.52 * p2_moves_next, with f3 = 100 when player 1 needs no
\* move to the next row and 1 / (p1_moves_next + 0.1) otherwise
EvaluateState(g) ==
    LET p1_dist == DistanceToGoal(g, Player1)
        p2_dist == DistanceToGoal(g, Player2)
        p1_moves_next == MovesToNextRow(g, Player1)
        p2_moves_next == MovesToNextRow(g, Player2)
        rest == 6001 * (p2_dist - p1_dist) - 65200 * p2_moves_next
    IN  IF p1_moves_next = 0
        THEN Finite(rest + 144500 * 100, 1)
        ELSE Finite(rest * (10 * p1_moves_next + 1) + 1445000, 10 * p1_moves_next + 1)

\* Whether a precedes b in the order the model lists pawn moves in where the
\* order does not bear on the result
MoveBefore(a, b) ==
    LET ca == AlgebraicToCoord(a, Size).coord
        cb == AlgebraicToCoord(b, Size).coord
    IN  ca[1] < cb[1] \/ (ca[1] = cb[1] /\ ca[2] < cb[2])

\* A set of pawn moves as a Vec, in that order
RECURSIVE InOrder(_)
InOrder(moves_set) ==
    IF moves_set = {} THEN <<>>
    ELSE LET first == CHOOSE a \in moves_set : \A b \in moves_set \ {a} : MoveBefore(a, b)
         IN  <<first>> \o InOrder(moves_set \ {first})

\* Every order a HashSet can yield the pawn moves in
RECURSIVE Orders(_)
Orders(moves_set) ==
    IF moves_set = {} THEN {<<>>}
    ELSE UNION {{<<first>> \o rest : rest \in Orders(moves_set \ {first})} :
                   first \in moves_set}

\* A move applied to a clone without validation, as the searches apply it
ApplyUnchecked(g, move_str) ==
    IF Len(move_str) >= 3 THEN AddWall(g, move_str, FALSE, FALSE)
                          ELSE MovePawn(g, move_str, FALSE)

RECURSIVE MinimaxAlphaBeta(_, _, _, _, _)
RECURSIVE MaximizingLoop(_, _, _, _, _, _, _)
RECURSIVE MinimizingLoop(_, _, _, _, _, _, _)
RECURSIVE MinimizingLoopFirstOnly(_, _, _, _, _, _, _)

\* The loop of the minimizing player cutting off after the first move it
\* could apply
MinimizingLoopFirstOnly(g, depth, all_moves, i, alpha, beta, min_eval) ==
    IF i > Len(all_moves) THEN min_eval
    ELSE CHOOSE result \in
           {IF ~r.ret
            THEN MinimizingLoopFirstOnly(g, depth, all_moves, i + 1, alpha, beta, min_eval)
            ELSE ScoreMin(min_eval, MinimaxAlphaBeta(r.game, depth - 1, alpha, beta, TRUE)) :
            r \in {ApplyUnchecked(g, all_moves[i])}} : TRUE

\* minimax_alphabeta, the loop of the maximizing player from move i on.
\* The clone after the move (r), eval, max_eval and alpha are each computed
\* once, as the locals of the code are.
MaximizingLoop(g, depth, all_moves, i, alpha, beta, max_eval) ==
    IF i > Len(all_moves) THEN max_eval
    ELSE CHOOSE result \in
           {IF ~r.ret
            THEN MaximizingLoop(g, depth, all_moves, i + 1, alpha, beta, max_eval)
            ELSE CHOOSE kept \in
                   {CHOOSE out \in
                      {IF ScoreLessEq(beta, new_alpha) THEN new_max
                       ELSE MaximizingLoop(g, depth, all_moves, i + 1,
                                           new_alpha, beta, new_max) :
                       new_max \in {ScoreMax(max_eval, eval)},
                       new_alpha \in {ScoreMax(alpha, eval)}} : TRUE :
                    eval \in {MinimaxAlphaBeta(r.game, depth - 1, alpha, beta, FALSE)}} : TRUE :
            r \in {ApplyUnchecked(g, all_moves[i])}} : TRUE

\* minimax_alphabeta, the loop of the minimizing player from move i on
MinimizingLoop(g, depth, all_moves, i, alpha, beta, min_eval) ==
    IF i > Len(all_moves) THEN min_eval
    ELSE CHOOSE result \in
           {IF ~r.ret
            THEN MinimizingLoop(g, depth, all_moves, i + 1, alpha, beta, min_eval)
            ELSE CHOOSE kept \in
                   {CHOOSE out \in
                      {IF ScoreLessEq(new_beta, alpha) THEN new_min
                       ELSE MinimizingLoop(g, depth, all_moves, i + 1,
                                           alpha, new_beta, new_min) :
                       new_min \in {ScoreMin(min_eval, eval)},
                       new_beta \in {ScoreMin(beta, eval)}} : TRUE :
                    eval \in {MinimaxAlphaBeta(r.game, depth - 1, alpha, beta, TRUE)}} : TRUE :
            r \in {ApplyUnchecked(g, all_moves[i])}} : TRUE

\* MinimaxStrategy::minimax_alphabeta.  Below the root the pawn moves are
\* listed in the order of InOrder.
MinimaxAlphaBeta(g, depth, alpha, beta, is_maximizing_player) ==
    CHOOSE value \in
      {IF game_state.pawn_positions[Opponent(game_state.active_player)]
             \in GoalPositions(Opponent(game_state.active_player))
       THEN IF Opponent(game_state.active_player) = Player1 THEN Infinity ELSE NegInfinity
       ELSE IF depth = 0 THEN EvaluateState(game_state)
       ELSE CHOOSE searched \in
              {IF all_moves = <<>>
               THEN IF is_maximizing_player THEN NegInfinity ELSE Infinity
               ELSE IF is_maximizing_player
               THEN MaximizingLoop(game_state, depth, all_moves, 1, a, b, NegInfinity)
               ELSE MinimizingLoop(game_state, depth, all_moves, 1, a, b, Infinity) :
               all_moves \in {InOrder(GetLegalMoves(game_state, game_state.active_player))
                                \o GetLegalWalls(game_state, game_state.active_player)}} : TRUE :
       game_state \in {g}, a \in {alpha}, b \in {beta}} : TRUE

\* choose_move's loop over the first moves from move i on: the move kept is
\* the first one whose score exceeds every score before it
RECURSIVE BestMoveLoop(_, _, _, _, _)
BestMoveLoop(scores, all_moves, i, best_move, best_score) ==
    IF i > Len(all_moves) THEN best_move
    ELSE IF ScoreLess(best_score, scores[all_moves[i]])
         THEN BestMoveLoop(scores, all_moves, i + 1,
                           Some(all_moves[i]), scores[all_moves[i]])
         ELSE BestMoveLoop(scores, all_moves, i + 1, best_move, best_score)

\* The first element of a Vec of moves that satisfies win_check
FirstWin(g, legal_pawn_moves) ==
    LET wins == SelectSeq(legal_pawn_moves, LAMBDA m : WinCheck(g, m))
    IN  IF wins = <<>> THEN None ELSE Some(wins[1])

\* choose_move's score of a first move: minimax_alphabeta on the clone the
\* move was applied to
ScoreOfMove(g, move_str, depth) ==
    CHOOSE score \in
      {IF r.ret
       THEN MinimaxAlphaBeta(r.game, depth - 1, NegInfinity, Infinity, FALSE)
       ELSE NegInfinity :
       r \in {ApplyUnchecked(g, move_str)}} : TRUE

\* The moves of a set, each with its score
ScoredMoves(g, moves_set, depth) == {<<m, ScoreOfMove(g, m, depth)>> : m \in moves_set}

\* MinimaxStrategy::choose_move, after the opening book: every move it can
\* return, over the orders in which get_legal_moves can list the pawn moves
\* (the order of a HashSet's iteration, drawn anew at every call).
MinimaxSearch(g, depth) ==
    LET current_player == g.active_player
        Fallback(pawn_set, legal_wall_moves) ==
            IF pawn_set # {} THEN {Some(m) : m \in pawn_set}
            ELSE IF legal_wall_moves # <<>> THEN {Some(legal_wall_moves[1])}
            ELSE {None}
        From(legal_pawn_moves, legal_wall_moves, scores) ==
            UNION {IF FirstWin(g, legal_pawn_moves).some THEN {FirstWin(g, legal_pawn_moves)}
                   ELSE IF all_moves = <<>> THEN {None}
                   ELSE UNION {IF best_move.some THEN {best_move}
                               ELSE Fallback(Range(legal_pawn_moves), legal_wall_moves) :
                               best_move \in {BestMoveLoop(scores, all_moves, 1,
                                                           None, NegInfinity)}} :
                   all_moves \in {legal_pawn_moves \o legal_wall_moves}}
        Scored(pawn_set, legal_wall_moves) ==
            UNION {UNION {From(legal_pawn_moves, legal_wall_moves,
                               [m \in {sc[1] : sc \in scored} |->
                                   (CHOOSE sc \in scored : sc[1] = m)[2]]) :
                          legal_pawn_moves \in Orders(pawn_set)} :
                   scored \in {ScoredMoves(g, pawn_set \cup Range(legal_wall_moves), depth)}}
    IN  UNION {Scored(pawn_set, legal_wall_moves) :
               pawn_set \in {GetLegalMoves(g, current_player)},
               legal_wall_moves \in {GetLegalWalls(g, current_player)}}

\* SimulatedAnnealingStrategy::choose_move, after the opening book: nothing
\* when there is no move, else an immediate win, else the accepted first
\* move or the random fallback, both taken from all_player_moves.
SimulatedAnnealingSearch(g) ==
    LET player == g.active_player
        all_player_moves == AllMoves(g, player)
    IN  IF all_player_moves = {} THEN {None}
        ELSE IF WinningMoves(g, player) # {}
        THEN {Some(m) : m \in WinningMoves(g, player)}
        ELSE {Some(m) : m \in all_player_moves}

Kinds == {"mcts", "minimax", "simulated_annealing"}

\* Strategy::choose_move : the set of [move, strategy] it can end with
ChooseMove(strategy, g) ==
    LET opening == TryOpeningMove(strategy.base, g)
        after == [strategy EXCEPT !.base = opening.base]
        search == CASE strategy.kind = "mcts" -> MCTSSearch(g)
                    [] strategy.kind = "minimax" -> MinimaxSearch(g, Depth)
                    [] OTHER -> SimulatedAnnealingSearch(g)
    IN  IF opening.move.some
        THEN {[move |-> opening.move, strategy |-> after]}
        ELSE {[move |-> mv, strategy |-> after] : mv \in search}

\* QuoridorStrategy::new
NewStrategy(kind, opening_moves) ==
    [kind |-> kind, base |-> [opening_moves |-> opening_moves, move_counter |-> 0]]

-----------------------------------------------------------------------------
(* Construction from a serialized state (game.rs, Quoridor::new and        *)
(* parse_state_string).  The state string is read character by character, *)
(* as split, trim, split_whitespace and parse read it.                     *)

\* str::split(ch): the fields between the occurrences of ch
RECURSIVE SplitOn(_, _)
SplitOn(str, ch) ==
    IF \A i \in DOMAIN str : str[i] # ch THEN <<str>>
    ELSE LET i == CHOOSE k \in DOMAIN str : str[k] = ch /\ \A j \in 1..(k - 1) : str[j] # ch
         IN  <<SubSeq(str, 1, i - 1)>> \o SplitOn(SubSeq(str, i + 1, Len(str)), ch)

\* str::trim
RECURSIVE Trim(_)
Trim(str) ==
    IF str # <<>> /\ str[1] = " " THEN Trim(Tail(str))
    ELSE IF str # <<>> /\ str[Len(str)] = " " THEN Trim(SubSeq(str, 1, Len(str) - 1))
    ELSE str

\* str::split_whitespace
SplitWhitespace(str) == SelectSeq(SplitOn(str, " "), LAMBDA field : field # <<>>)

\* The loop of parse_state_string over a wall list, from byte offset i:
\* every two characters are a wall anchor handed to add_wall_internal, whose
\* result is dropped; a last odd character is reported and skipped.
RECURSIVE ApplyWallList(_, _, _, _)
ApplyWallList(g, wall_str, i, orientation) ==
    IF i + 2 > Len(wall_str) THEN Returned(TRUE, g)
    ELSE LET placed == AddWallInternal(g, SubSeq(wall_str, i + 1, i + 2) \o <<orientation>>, TRUE)
         IN  IF placed.panic THEN Panicked(g)
             ELSE ApplyWallList(placed.game, wall_str, i + 2, orientation)

\* wall_avail_parts[k].parse().unwrap_or(self.walls)
ParseOrDefault(str, walls) ==
    LET parsed == ParseUsize(str) IN IF parsed.ok THEN parsed.val ELSE walls

\* parse_state_string that reads the active player and leaves the turn with
\* the player the constructor set
ParseStateStringKeepingTurn(g, walls, state_string) ==
    LET parts == SplitOn(state_string, "/")
    IN  IF Len(parts) # 5 THEN Panicked(g)
        ELSE
          LET hwall_str == Trim(parts[1])
              vwall_str == Trim(parts[2])
              pawn_parts == SplitWhitespace(Trim(parts[3]))
              wall_avail_parts == SplitWhitespace(Trim(parts[4]))
              active_player_str == Trim(parts[5])
              cleared == [g EXCEPT !.hwall_positions = {}, !.vwall_positions = {},
                                   !.graph = InitializeBoardGraph(Size)]
              with_h == ApplyWallList(cleared, hwall_str, 0, "h")
              with_v == ApplyWallList(with_h.game, vwall_str, 0, "v")
          IN  IF with_h.panic \/ with_v.panic THEN Panicked(g)
              ELSE IF Len(pawn_parts) # 2 THEN Panicked(g)
              ELSE IF AlgebraicToCoord(pawn_parts[1], Size).panic
                        \/ AlgebraicToCoord(pawn_parts[2], Size).panic THEN Panicked(g)
              ELSE IF Len(wall_avail_parts) # 2 THEN Panicked(g)
              ELSE IF active_player_str \notin {<<"1">>, <<"2">>} THEN Panicked(g)
              ELSE Returned(TRUE,
                     UpdateStateString(
                       [with_v.game EXCEPT
                          !.pawn_positions =
                              [p \in Players |->
                                 AlgebraicToCoord(pawn_parts[PlayerNumber(p)], Size).coord],
                          !.walls_available =
                              [p \in Players |->
                                 ParseOrDefault(wall_avail_parts[PlayerNumber(p)], walls)]],
                       TRUE))

\* Quoridor::parse_state_string
ParseStateString(g, walls, state_string) ==
    LET parts == SplitOn(state_string, "/")
    IN  IF Len(parts) # 5 THEN Panicked(g)
        ELSE
          LET hwall_str == Trim(parts[1])
              vwall_str == Trim(parts[2])
              pawn_parts == SplitWhitespace(Trim(parts[3]))
              wall_avail_parts == SplitWhitespace(Trim(parts[4]))
              active_player_str == Trim(parts[5])
              cleared == [g EXCEPT !.hwall_positions = {}, !.vwall_positions = {},
                                   !.graph = InitializeBoardGraph(Size)]
              with_h == ApplyWallList(cleared, hwall_str, 0, "h")
              with_v == ApplyWallList(with_h.game, vwall_str, 0, "v")
          IN  IF with_h.panic \/ with_v.panic THEN Panicked(g)
              ELSE IF Len(pawn_parts) # 2 THEN Panicked(g)
              ELSE IF AlgebraicToCoord(pawn_parts[1], Size).panic
                        \/ AlgebraicToCoord(pawn_parts[2], Size).panic THEN Panicked(g)
              ELSE IF Len(wall_avail_parts) # 2 THEN Panicked(g)
              ELSE IF active_player_str \notin {<<"1">>, <<"2">>} THEN Panicked(g)
              ELSE Returned(TRUE,
                     UpdateStateString(
                       [with_v.game EXCEPT
                          !.pawn_positions =
                              [p \in Players |->
                                 AlgebraicToCoord(pawn_parts[PlayerNumber(p)], Size).coord],
                          !.walls_available =
                              [p \in Players |->
                                 ParseOrDefault(wall_avail_parts[PlayerNumber(p)], walls)],
                          !.active_player =
                              IF active_player_str = <<"1">> THEN Player1 ELSE Player2],
                       TRUE))

\* Quoridor::new(size, walls, state_string) for the sizes it refuses and for
\* the size of the model's board
QuoridorNew(size, walls, state_string) ==
    IF size < 3 \/ size % 2 = 0 THEN Panicked(NewGame(walls))
    ELSE IF state_string.some
         THEN ParseStateString(NewGame(walls), walls, state_string.value)
    ELSE Returned(TRUE, NewGame(walls))

-----------------------------------------------------------------------------
(* The callers of the board (quoridor-cli, quoridor-wasm): every call is   *)
(* made in checked mode with is_initialising = false, on a move string     *)
(* that comes from a strategy or from the user.                            *)

CellLabels == {CoordToAlgebraic(c, Size) : c \in Cells}

WallMoves == {l \o <<o>> : l \in CellLabels, o \in {"h", "v"}}

\* Strings that are no move of this board: too short, too long, a column
\* that is no letter or lies beyond the board, a row that is no number or
\* lies beyond the board, an orientation that is neither h nor v.
Malformed ==
    { <<>>, <<"a">>, <<"a", "h">>, <<"1", "1">>, <<"a", "x">>, <<"a", "0">>,
      <<"a", UsizeToString(Size + 1)[1]>>, <<LowerCase[Size + 1], "1">>,
      <<"A", "1">>, <<"a", "1", "x">>, <<"1", "1", "h">>,
      <<"a", "0", "v">>, <<LowerCase[Size + 1], "2", "h">>, <<"a", "2", "h", "h">> }

MoveStrings == CellLabels \cup WallMoves \cup Malformed

NoCall == [op |-> "none", ret |-> "none", arg |-> <<>>]

\* What `last` keeps of a call: the argument is kept when the call was
\* accepted or panicked.
Outcome(op, arg, r) ==
    [op |-> op,
     ret |-> IF r.panic THEN "panic" ELSE IF r.ret THEN "true" ELSE "false",
     arg |-> IF r.panic \/ r.ret THEN arg ELSE <<>>]

NoStrategy == NewStrategy("none", <<>>)

\* No search is running
NoSearch == [pc |-> "idle"]

\* No conversion under way
NoNotation == [pc |-> "idle"]
NoAnneal == [pc |-> "idle"]
NoTournament == [pc |-> "idle"]

Init ==
    /\ game = NewGame(Walls)
    /\ aborted = FALSE
    /\ anneal = NoAnneal
    /\ tournament = NoTournament
    /\ last = NoCall
    /\ moves = 0
    /\ strategies = [p \in Players |-> NoStrategy]
    /\ chosen = None
    /\ status = "playing"
    /\ mcts = NoSearch
    /\ notation = NoNotation

\* game.move_pawn(m, true)
MovePawnCall(m) ==
    /\ ~aborted
    /\ moves < MaxMoves
    /\ LET r == MovePawn(game, m, TRUE)
       IN  /\ game' = r.game
           /\ aborted' = r.panic
           /\ last' = Outcome("move_pawn", m, r)
           /\ moves' = IF r.ret THEN moves + 1 ELSE moves
    /\ UNCHANGED <<strategies, chosen, status, mcts, notation, anneal, tournament>>

\* game.add_wall(m, false, true)
AddWallCall(m) ==
    /\ ~aborted
    /\ moves < MaxMoves
    /\ LET r == AddWall(game, m, FALSE, TRUE)
       IN  /\ game' = r.game
           /\ aborted' = r.panic
           /\ last' = Outcome("add_wall", m, r)
           /\ moves' = IF r.ret THEN moves + 1 ELSE moves
    /\ UNCHANGED <<strategies, chosen, status, mcts, notation, anneal, tournament>>

Next ==
    \/ \E m \in MoveStrings : MovePawnCall(m)
    \/ \E m \in MoveStrings : AddWallCall(m)

Spec == Init /\ [][Next]_vars

\* The same client on boards constructed with few walls per player, so that
\* a player runs out of walls within the moves explored.
FewWalls == 1

InitFewWalls ==
    /\ game \in {NewGame(w) : w \in 0..FewWalls}
    /\ aborted = FALSE
    /\ anneal = NoAnneal
    /\ tournament = NoTournament
    /\ last = NoCall
    /\ moves = 0
    /\ strategies = [p \in Players |-> NoStrategy]
    /\ chosen = None
    /\ status = "playing"
    /\ mcts = NoSearch
    /\ notation = NoNotation

SpecFewWalls == InitFewWalls /\ [][Next]_vars

\* The same client also asking the board its read-only questions between
\* the moves.  `last` keeps the question, its argument and the answer.
Answer(op, arg, ret) == [op |-> op, ret |-> ret, arg |-> arg]

\* game.win_check(m)
WinCheckCall(m) ==
    /\ ~aborted
    /\ aborted' = WinCheckPanics(m)
    /\ last' = Answer("win_check", m,
                      IF WinCheckPanics(m) THEN "panic"
                      ELSE IF WinCheck(game, m) THEN "true" ELSE "false")
    /\ UNCHANGED <<game, moves, strategies, chosen, status, mcts, notation, anneal, tournament>>

\* game.distance_to_goal(p)
DistanceToGoalCall(p) ==
    /\ ~aborted
    /\ last' = Answer("distance_to_goal", p, DistanceToGoal(game, p))
    /\ UNCHANGED <<game, aborted, moves, strategies, chosen, status, mcts, notation, anneal, tournament>>

\* game.moves_to_next_row(p)
MovesToNextRowCall(p) ==
    /\ ~aborted
    /\ last' = Answer("moves_to_next_row", p, MovesToNextRow(game, p))
    /\ UNCHANGED <<game, aborted, moves, strategies, chosen, status, mcts, notation, anneal, tournament>>

\* Quoridor::new(size, walls, Some(&game.state_string)): a second board is
\* constructed from the string the board keeps of itself
LoadStateCall ==
    /\ ~aborted
    /\ last' = Answer("new", game.state_string,
                      QuoridorNew(Size, Walls, Some(game.state_string)))
    /\ UNCHANGED <<game, aborted, moves, strategies, chosen, status, mcts, notation, anneal, tournament>>

NextQuery ==
    \/ \E m \in MoveStrings : MovePawnCall(m)
    \/ \E m \in MoveStrings : AddWallCall(m)
    \/ \E m \in MoveStrings : WinCheckCall(m)
    \/ LoadStateCall

SpecQuery == Init /\ [][NextQuery]_vars

\* Construction from any input: a size and a serialized state put together
\* from well-formed and malformed fields.
MaxSize == 4

HWallFields == {<<>>, <<"a", "1">>, <<"a">>, <<"a", "1", "b">>, <<"z", "z">>}
VWallFields == {<<>>, <<"b", "2">>, <<"b">>}
PawnFields ==
    {<<"b", "1", " ", "b", "3">>, <<"b", "1">>, <<"b", "1", " ", "b", "3", " ", "a", "1">>,
     <<"b", "9", " ", "b", "3">>}
CountFields == {<<"2", " ", "2">>, <<"2">>, <<"x", " ", "2">>, <<"2", " ", "2", " ", "2">>}
PlayerFields == {<<"1">>, <<"2">>, <<"3">>, <<>>}

StateStrings ==
    {h \o Sep \o v \o Sep \o pw \o Sep \o n \o Sep \o a :
        h \in HWallFields, v \in VWallFields, pw \in PawnFields,
        n \in CountFields, a \in PlayerFields}
    \cup {<<>>,
          <<"b", "1", " ", "b", "3">> \o Sep \o <<"2", " ", "2">> \o Sep \o <<"1">>,
          Sep \o Sep \o <<"b", "1", " ", "b", "3">> \o Sep \o <<"2", " ", "2">>
              \o Sep \o <<"1">> \o Sep}

InitLoad ==
    /\ game = NewGame(Walls)
    /\ aborted = FALSE
    /\ anneal = NoAnneal
    /\ tournament = NoTournament
    /\ \E size \in {k \in 0..MaxSize : k < 3 \/ k % 2 = 0 \/ k = Size}, str \in StateStrings :
          last = Answer("input", [size |-> size, state_string |-> str], "none")
    /\ moves = 0
    /\ strategies = [p \in Players |-> NoStrategy]
    /\ chosen = None
    /\ status = "playing"
    /\ mcts = NoSearch
    /\ notation = NoNotation

\* Quoridor::new(size, walls, Some(state_string))
NewCall ==
    /\ last.op = "input"
    /\ last' = Answer("new", last.arg,
                      QuoridorNew(last.arg.size, Walls, Some(last.arg.state_string)))
    /\ UNCHANGED <<game, aborted, moves, strategies, chosen, status, mcts, notation, anneal, tournament>>

NextLoad == NewCall

SpecLoad == InitLoad /\ [][NextLoad]_vars

\* The distance questions on any board: the pawns stand on any two cells
\* (pawn_positions is a public field) and up to MaxWallsPlaced walls were
\* put on the board without validation, as add_wall(w, true, false) does, so
\* that a goal rank can be walled off.
MaxWallsPlaced == 2

RECURSIVE WithWalls(_, _)
WithWalls(g, walls) ==
    IF walls = {} THEN g
    ELSE LET w == CHOOSE x \in walls : TRUE
         IN  WithWalls(AddWall(g, w, TRUE, FALSE).game, walls \ {w})

WallSetsUpTo(n) == {ws \in SUBSET WallMoves : Cardinality(ws) <= n}

InitDistance ==
    /\ \E ws \in WallSetsUpTo(MaxWallsPlaced), c1 \in Cells, c2 \in Cells :
          /\ c1 # c2
          /\ game = [WithWalls(NewGame(Walls), ws) EXCEPT
                       !.pawn_positions = [p \in Players |-> IF p = Player1 THEN c1 ELSE c2]]
    /\ aborted = FALSE
    /\ anneal = NoAnneal
    /\ tournament = NoTournament
    /\ last = NoCall
    /\ moves = 0
    /\ strategies = [p \in Players |-> NoStrategy]
    /\ chosen = None
    /\ status = "playing"
    /\ mcts = NoSearch
    /\ notation = NoNotation

NextDistance ==
    \/ \E p \in Players : DistanceToGoalCall(p)
    \/ \E p \in Players : MovesToNextRowCall(p)

SpecDistance == InitDistance /\ [][NextDistance]_vars

-----------------------------------------------------------------------------
(* A match as the tournament runs it (quoridor-cli main.rs): each turn the *)
(* active player's strategy chooses a move on the authoritative board and  *)
(* the move is applied in checked mode.                                    *)

\* Opening books of the model: none; a pawn step forward and then a wall; a
\* sideways step of the first player, which is no move of the second player
\* from its own start, and then a step to the centre; a vertical wall of the
\* top row, which get_legal_walls never lists, and then a wall it lists; a
\* single step onto the second player's start, which is nobody's move at
\* the first turn.
Books ==
    { <<>>,
      <<Label(<<1, 1>>), Label(<<1, 0>>) \o <<"h">>>>,
      <<Label(<<Size - 1, 0>>), Label(<<1, 1>>)>>,
      <<Label(<<0, 0>>) \o <<"v">>, Label(<<Size - 1, 0>>) \o <<"v">>>>,
      <<Label(<<0, Size \div 2>>)>> }

InitMatch ==
    /\ game = NewGame(Walls)
    /\ aborted = FALSE
    /\ anneal = NoAnneal
    /\ tournament = NoTournament
    /\ last = NoCall
    /\ moves = 0
    /\ strategies \in [Players -> {NewStrategy(k, b) : k \in Kinds, b \in Books}]
    /\ strategies[Player1].kind = strategies[Player2].kind
    /\ chosen = None
    /\ status = "playing"
    /\ mcts = NoSearch
    /\ notation = NoNotation

\* The game loop's test for a wall move
IsWallMove(move_str) == Len(move_str) >= 3 /\ move_str[Len(move_str)] \in {"h", "v"}

\* The move applied as the game loop applies it
ApplyMove(g, move_str) ==
    IF IsWallMove(move_str)
    THEN AddWall(g, move_str, FALSE, TRUE)
    ELSE MovePawn(g, move_str, TRUE)

\* One iteration of the game loop with a strategy of the given kind to move
Turn(kind) ==
    /\ status = "playing"
    /\ ~aborted
    /\ moves < MaxMoves
    /\ strategies[game.active_player].kind = kind
    /\ UNCHANGED <<mcts, notation, anneal, tournament>>
    /\ \E res \in ChooseMove(strategies[game.active_player], game) :
         /\ strategies' = [strategies EXCEPT ![game.active_player] = res.strategy]
         /\ chosen' = res.move
         /\ IF ~res.move.some
            THEN /\ status' = "forfeit"
                 /\ UNCHANGED <<game, aborted, last, moves, anneal, tournament>>
            ELSE LET is_win == WinCheck(game, res.move.value)
                     r == ApplyMove(game, res.move.value)
                 IN  /\ game' = r.game
                     /\ aborted' = r.panic
                     /\ last' = Outcome(IF IsWallMove(res.move.value) THEN "add_wall"
                                                                      ELSE "move_pawn",
                                        res.move.value, r)
                     /\ moves' = moves + 1
                     /\ status' = IF r.panic \/ ~r.ret THEN "illegal"
                                  ELSE IF is_win THEN "won" ELSE "playing"

MCTSTurn == Turn("mcts")
MinimaxTurn == Turn("minimax")
SimulatedAnnealingTurn == Turn("simulated_annealing")

NextMatch == MCTSTurn \/ MinimaxTurn \/ SimulatedAnnealingTurn

SpecMatch == InitMatch /\ [][NextMatch]_vars

\* The search of the Minimax strategy asked on the boards of the first
\* plies of a game: minimax_alphabeta with the full window at every depth up
\* to SearchDepth, for either kind of node, and choose_move of a strategy
\* constructed with depth SearchDepth and no opening book.
SearchDepth == 2
MaxPlies == 2

\* A legal move of the player to move is played
Advance(m) ==
    /\ moves < MaxPlies
    /\ m \in AllMoves(game, game.active_player)
    /\ game' = ApplyMove(game, m).game
    /\ moves' = moves + 1
    /\ last' = NoCall
    /\ UNCHANGED <<aborted, strategies, chosen, status, mcts, notation, anneal, tournament>>

\* self.minimax_alphabeta(&game, depth, NEG_INFINITY, INFINITY, is_maximizing_player)
MinimaxAlphaBetaCall(depth, is_maximizing_player) ==
    /\ last' = Answer("minimax_alphabeta",
                      [depth |-> depth, is_maximizing_player |-> is_maximizing_player],
                      MinimaxAlphaBeta(game, depth, NegInfinity, Infinity,
                                       is_maximizing_player))
    /\ UNCHANGED <<game, aborted, moves, strategies, chosen, status, mcts, notation, anneal, tournament>>

\* MinimaxStrategy::choose_move past the opening book: the moves it can return
MinimaxChooseMoveCall ==
    /\ last' = Answer("choose_move", SearchDepth, MinimaxSearch(game, SearchDepth))
    /\ UNCHANGED <<game, aborted, moves, strategies, chosen, status, mcts, notation, anneal, tournament>>

NextAlphaBeta ==
    \/ \E m \in CellLabels \cup WallMoves : Advance(m)
    \/ \E depth \in 0..SearchDepth, is_maximizing_player \in BOOLEAN :
          MinimaxAlphaBetaCall(depth, is_maximizing_player)
    \/ MinimaxChooseMoveCall

SpecAlphaBeta == Init /\ [][NextAlphaBeta]_vars

-----------------------------------------------------------------------------
(* A run of MCTSStrategy::run_search (mcts.rs), step by step.  The tree is *)
(* a function from the paths of its nodes to the nodes, a path being the   *)
(* sequence of child indices from the root; the Vec of raw pointers `path` *)
(* of the code is then one path of the tree, its entries the prefixes.     *)

\* The simulation_limit the strategy of the model is constructed with
SimulationLimit == 3

\* max_sim_moves of simulate_random_playout
MaxSimMoves == 150

\* MCTSNode::new
\* A node that forgets the legal moves it is given
NewNodeWithoutMoves(move_str, player_to_move, legal_moves) ==
    [move_str |-> move_str,
     player_to_move |-> player_to_move,
     visits |-> 0,
     wins |-> 0,
     children |-> 0,
     unexpanded_moves |-> {}]

NewNode(move_str, player_to_move, legal_moves) ==
    [move_str |-> move_str,
     player_to_move |-> player_to_move,
     visits |-> 0,
     wins |-> 0,
     children |-> 0,
     unexpanded_moves |-> legal_moves]

Root == <<"r", "o", "o", "t">>

\* The boards a search of the model is run on: a fresh board without walls,
\* and two boards loaded from a state string: one on which only the second
\* player holds a wall, one without walls where the first player stands in
\* a corner and has two moves.
SearchBoards ==
    { NewGame(0),
      UpdateStateString([NewGame(1) EXCEPT !.walls_available[Player1] = 0], TRUE),
      UpdateStateString([NewGame(0) EXCEPT !.pawn_positions[Player1] = <<Size - 1, 0>>], TRUE) }

\* MCTSStrategy::is_terminal
IsTerminal(g) ==
    g.pawn_positions[Player1][1] = 0 \/ g.pawn_positions[Player2][1] = Size - 1

\* The entries of `path`: the nodes from the root to the node at path p
PathNodes(p) == {SubSeq(p, 1, k) : k \in 0..Len(p)}

InitSearch ==
    /\ game \in SearchBoards
    /\ aborted = FALSE
    /\ anneal = NoAnneal
    /\ tournament = NoTournament
    /\ last = NoCall
    /\ moves = 0
    /\ strategies = [p \in Players |-> NewStrategy("mcts", <<>>)]
    /\ chosen = None
    /\ status = "playing"
    /\ notation = NoNotation
    /\ \E time_limit \in BOOLEAN :
         mcts = [pc |-> "start",
                 time_limit |-> time_limit,
                 simulations_run |-> 0,
                 iterations |-> 0,
                 nodes |-> <<>>,
                 path |-> <<>>,
                 sim |-> game,
                 plies |-> 0,
                 winner |-> "none",
                 result |-> <<>>]

\* run_search up to the main loop: the root moves and the root node
BeginSearch ==
    /\ mcts.pc = "start"
    /\ LET root_moves == AllMoves(game, game.active_player)
       IN  IF root_moves = {}
           THEN mcts' = [mcts EXCEPT !.pc = "done", !.result = Resign]
           ELSE IF Cardinality(root_moves) = 1
           THEN \E m \in root_moves : mcts' = [mcts EXCEPT !.pc = "done", !.result = m]
           ELSE mcts' = [mcts EXCEPT
                            !.pc = "check",
                            !.nodes = (<<>> :> NewNode(Root, game.active_player, root_moves))]
    /\ UNCHANGED <<game, aborted, last, moves, strategies, chosen, status, notation, anneal, tournament>>

\* Whether the simulation budget ends the loop, the counter just incremented
SimulationsExhaustedEarly(simulations_run) == simulations_run >= SimulationLimit

\* Whether the simulation budget ends the loop, the counter just incremented
SimulationsExhausted(simulations_run) == simulations_run > SimulationLimit

\* The termination check at the head of the main loop.  The clock of the
\* time budget is not modelled: when a budget is set it may have run out at
\* any check.
CheckBudget ==
    /\ mcts.pc = "check"
    /\ LET simulations_run == mcts.simulations_run + 1
       IN  \/ /\ SimulationsExhausted(simulations_run) 
              /\ mcts' = [mcts EXCEPT !.pc = "final", !.simulations_run = simulations_run]
           \/ /\ ~SimulationsExhausted(simulations_run)
              /\ mcts.time_limit
              /\ mcts' = [mcts EXCEPT !.pc = "final", !.simulations_run = simulations_run]
           \/ /\ ~SimulationsExhausted(simulations_run)
              /\ mcts' = [mcts EXCEPT
                            !.pc = "select",
                            !.simulations_run = simulations_run,
                            !.sim = game,
                            !.path = <<>>,
                            !.plies = 0,
                            !.winner = "none"]
    /\ UNCHANGED <<game, aborted, last, moves, strategies, chosen, status, notation, anneal, tournament>>

\* One round of the selection loop.  The f64 UCT values are not computed:
\* every child of the node is a possible select_best_child_index.
Select ==
    /\ mcts.pc = "select"
    /\ LET current_node == mcts.nodes[mcts.path]
       IN  IF current_node.unexpanded_moves # {} \/ current_node.children = 0
           THEN mcts' = [mcts EXCEPT !.pc = "expand"]
           ELSE IF IsTerminal(mcts.sim)
           THEN mcts' = [mcts EXCEPT !.pc = "expand"]
           ELSE \E best_child_idx \in 1..current_node.children :
                  LET next_node == Append(mcts.path, best_child_idx)
                      r == ApplyMove(mcts.sim, mcts.nodes[next_node].move_str)
                  IN  IF r.ret
                      THEN mcts' = [mcts EXCEPT !.path = next_node, !.sim = r.game]
                      ELSE mcts' = [mcts EXCEPT !.path = next_node, !.pc = "expand"]
    /\ UNCHANGED <<game, aborted, last, moves, strategies, chosen, status, notation, anneal, tournament>>

\* The expansion step
Expand ==
    /\ mcts.pc = "expand"
    /\ IF ~IsTerminal(mcts.sim) /\ mcts.nodes[mcts.path].unexpanded_moves # {}
       THEN \E move_to_expand \in mcts.nodes[mcts.path].unexpanded_moves :
              \E r \in {ApplyMove(mcts.sim, move_to_expand)} :
                LET removed == [mcts.nodes EXCEPT
                                  ![mcts.path].unexpanded_moves = @ \ {move_to_expand}]
                    new_node_player == r.game.active_player
                    child_moves == IF IsTerminal(r.game) THEN {}
                                   ELSE AllMoves(r.game, new_node_player)
                    new_child == Append(mcts.path, mcts.nodes[mcts.path].children + 1)
                IN  IF r.ret
                    THEN mcts' = [mcts EXCEPT
                                    !.pc = "playout",
                                    !.sim = r.game,
                                    !.path = new_child,
                                    !.nodes = [removed EXCEPT ![mcts.path].children = @ + 1]
                                              @@ (new_child :>
                                                    NewNode(move_to_expand, new_node_player,
                                                            child_moves))]
                    ELSE mcts' = [mcts EXCEPT !.pc = "playout", !.nodes = removed]
       ELSE mcts' = [mcts EXCEPT !.pc = "playout"]
    /\ UNCHANGED <<game, aborted, last, moves, strategies, chosen, status, notation, anneal, tournament>>

\* The pawn moves the playout heuristic tries, each with the distance to the
\* goal it leaves the player at (temp_game.move_pawn(mv, false), then
\* temp_game.distance_to_goal(player))
TriedPawnMoves(g, player) ==
    UNION {{<<mv, DistanceToGoal(temp_game, player)>> :
               temp_game \in {MovePawn(g, mv, FALSE).game}} :
           mv \in GetLegalMoves(g, player)}

\* The pawn moves the first branch of the playout heuristic can pick: the
\* first move of the Vec that reaches the least distance when that is less
\* than the present distance, the first move of the Vec otherwise.
GreedyPawnMoves(g, player) ==
    UNION {IF \E t \in tried : t[2] < DistanceToGoal(g, player)
           THEN {t[1] : t \in {x \in tried : \A y \in tried : x[2] <= y[2]}}
           ELSE {t[1] : t \in tried} :
           tried \in {TriedPawnMoves(g, player)}}

\* The moves one round of the playout loop can pick; none stands for None
PlayoutMoves(g) ==
    LET player == g.active_player
        p_dist == DistanceToGoal(g, player)
        o_dist == DistanceToGoal(g, Opponent(player))
    IN  IF p_dist <= o_dist \/ g.walls_available[player] = 0
        THEN GreedyPawnMoves(g, player)
        ELSE AllMoves(g, player)

\* One round of the loop of simulate_random_playout, or its end
Playout ==
    /\ mcts.pc = "playout"
    /\ IF mcts.plies = MaxSimMoves
       THEN mcts' = [mcts EXCEPT !.pc = "backprop", !.winner = "none"]
       ELSE IF mcts.sim.pawn_positions[Player1][1] = 0
       THEN mcts' = [mcts EXCEPT !.pc = "backprop", !.winner = Player1]
       ELSE IF mcts.sim.pawn_positions[Player2][1] = Size - 1
       THEN mcts' = [mcts EXCEPT !.pc = "backprop", !.winner = Player2]
       ELSE \E playout_moves \in {PlayoutMoves(mcts.sim)} :
              IF playout_moves = {}
              THEN mcts' = [mcts EXCEPT !.pc = "backprop",
                                        !.winner = Opponent(mcts.sim.active_player)]
              ELSE \E mv_str \in playout_moves :
                     \E r \in {IF Len(mv_str) >= 3 THEN AddWall(mcts.sim, mv_str, FALSE, TRUE)
                                                   ELSE MovePawn(mcts.sim, mv_str, TRUE)} :
                       IF r.ret
                       THEN mcts' = [mcts EXCEPT !.sim = r.game, !.plies = @ + 1]
                       ELSE mcts' = [mcts EXCEPT !.pc = "backprop", !.winner = "none"]
    /\ UNCHANGED <<game, aborted, last, moves, strategies, chosen, status, notation, anneal, tournament>>

\* The score of a playout counted for the player who moved into the node
PlayoutScoreOfOpponent(winner, node) ==
    IF winner = "none" THEN 5
    ELSE IF winner = Opponent(node.player_to_move) THEN 10 ELSE 0

\* The score backpropagation gives a node for a playout's winner
PlayoutScore(winner, node) ==
    IF winner = "none" THEN 5
    ELSE IF winner = node.player_to_move THEN 10 ELSE 0

\* MCTSNode::update
Update(node, score) == [node EXCEPT !.visits = @ + 1, !.wins = @ + score]

\* The backpropagation over `path`
Backpropagate ==
    /\ mcts.pc = "backprop"
    /\ mcts' = [mcts EXCEPT
                  !.pc = "check",
                  !.iterations = @ + 1,
                  !.nodes = [p \in DOMAIN mcts.nodes |->
                               IF p \in PathNodes(mcts.path)
                               THEN Update(mcts.nodes[p],
                                           PlayoutScore(mcts.winner, mcts.nodes[p]))
                               ELSE mcts.nodes[p]]]
    /\ UNCHANGED <<game, aborted, last, moves, strategies, chosen, status, notation, anneal, tournament>>

\* A final selection by average score: the last of the root's children with
\* the highest wins / visits
SelectBestAverageChildIndex(nodes) ==
    IF nodes[<<>>].children = 0 THEN 0
    ELSE CHOOSE i \in 1..nodes[<<>>].children :
           /\ \A j \in 1..nodes[<<>>].children :
                nodes[<<j>>].wins * nodes[<<i>>].visits
                  <= nodes[<<i>>].wins * nodes[<<j>>].visits
           /\ \A j \in (i + 1)..nodes[<<>>].children :
                nodes[<<j>>].wins * nodes[<<i>>].visits
                  < nodes[<<i>>].wins * nodes[<<j>>].visits

\* MCTSNode::select_most_visited_child_index on the root: Iterator::max_by_key
\* returns the last of the children with the most visits; 0 stands for None
SelectMostVisitedChildIndex(nodes) ==
    IF nodes[<<>>].children = 0 THEN 0
    ELSE CHOOSE i \in 1..nodes[<<>>].children :
           /\ \A j \in 1..nodes[<<>>].children : nodes[<<j>>].visits <= nodes[<<i>>].visits
           /\ \A j \in (i + 1)..nodes[<<>>].children : nodes[<<j>>].visits < nodes[<<i>>].visits

\* The final move selection
SelectFinalMove ==
    /\ mcts.pc = "final"
    /\ LET best_child_idx == SelectMostVisitedChildIndex(mcts.nodes)
           root_moves == AllMoves(game, game.active_player)
       IN  IF best_child_idx # 0
           THEN mcts' = [mcts EXCEPT !.pc = "done",
                                     !.result = mcts.nodes[<<best_child_idx>>].move_str]
           ELSE \E m \in root_moves : mcts' = [mcts EXCEPT !.pc = "done", !.result = m]
    /\ UNCHANGED <<game, aborted, last, moves, strategies, chosen, status, notation, anneal, tournament>>

NextSearch ==
    \/ BeginSearch
    \/ CheckBudget
    \/ Select
    \/ Expand
    \/ Playout
    \/ Backpropagate
    \/ SelectFinalMove

SpecSearch == InitSearch /\ [][NextSearch]_vars

\* The search scheduled as the thread that runs it is: it takes its next
\* step as long as it has one.
SpecSearchFair == SpecSearch /\ WF_vars(NextSearch)

-----------------------------------------------------------------------------
(* The conversions of utils.rs on the board of its tests: a coordinate is  *)
(* encoded by coord_to_algebraic and the string decoded again by           *)
(* algebraic_to_coord.                                                      *)

\* The board size of the tests of utils.rs
TEST_SIZE == 9

\* The coordinates of a board of TEST_SIZE rows and columns
TestCoords == {<<r, c>> : r \in 0 .. TEST_SIZE - 1, c \in 0 .. TEST_SIZE - 1}

InitNotation ==
    /\ game = NewGame(Walls)
    /\ aborted = FALSE
    /\ anneal = NoAnneal
    /\ tournament = NoTournament
    /\ last = NoCall
    /\ moves = 0
    /\ strategies = [p \in Players |-> NoStrategy]
    /\ chosen = None
    /\ status = "playing"
    /\ mcts = NoSearch
    /\ \E c \in TestCoords :
         notation = [pc |-> "coord", coord |-> c, text |-> <<>>, decoded |-> Panic]

\* coord_to_algebraic(coord, TEST_SIZE)
Encode ==
    /\ notation.pc = "coord"
    /\ notation' = [notation EXCEPT
                      !.pc = "text",
                      !.text = CoordToAlgebraic(notation.coord, TEST_SIZE)]
    /\ UNCHANGED <<game, aborted, last, moves, strategies, chosen, status, mcts, anneal, tournament>>

\* algebraic_to_coord(text, TEST_SIZE)
Decode ==
    /\ notation.pc = "text"
    /\ notation' = [notation EXCEPT
                      !.pc = "decoded",
                      !.decoded = AlgebraicToCoord(notation.text, TEST_SIZE)]
    /\ UNCHANGED <<game, aborted, last, moves, strategies, chosen, status, mcts, anneal, tournament>>

NextNotation == Encode \/ Decode

SpecNotation == InitNotation /\ [][NextNotation]_vars

\* The characters of the strings handed to algebraic_to_coord: a column of
\* the board, the orientation letter that is also a column, a letter beyond
\* the board of the tests, digits, a sign, an upper-case letter
LabelChars == {"a", "h", "j", "A", "0", "1", "+"}

\* The longest string handed to algebraic_to_coord
MaxLabelLen == 4

RECURSIVE StringsUpTo(_)
StringsUpTo(n) ==
    IF n = 0 THEN {<<>>}
    ELSE StringsUpTo(n - 1)
           \cup {Append(str, ch) : str \in {t \in StringsUpTo(n - 1) : Len(t) = n - 1},
                                   ch \in LabelChars}

\* A caller hands algebraic_to_coord any string
InitDecode ==
    /\ game = NewGame(Walls)
    /\ aborted = FALSE
    /\ anneal = NoAnneal
    /\ tournament = NoTournament
    /\ last = NoCall
    /\ moves = 0
    /\ strategies = [p \in Players |-> NoStrategy]
    /\ chosen = None
    /\ status = "playing"
    /\ mcts = NoSearch
    /\ \E str \in StringsUpTo(MaxLabelLen) :
         notation = [pc |-> "text", coord |-> <<0, 0>>, text |-> str, decoded |-> Panic]

NextDecode == Decode

SpecDecode == InitDecode /\ [][NextDecode]_vars

-----------------------------------------------------------------------------
(* simulate_random_playout on a long board (mcts.rs 355-421).  The board   *)
(* is as large as a playout of max_sim_moves plies needs, holds no wall,   *)
(* neither player has a wall left and the pawns walk in columns far apart: *)
(* every ply is the pawn move of the first heuristic branch, which takes   *)
(* the mover's pawn one row nearer to its goal rank.  Of the board the     *)
(* playout then reads only the two distances and the player to move.       *)

\* The distances to the goal rank a playout starts from: up to ShortWay
\* rows, or up to ShortWay rows less than LongWay
ShortWay == 2
LongWay == 76

StartDistances == 0..ShortWay \cup (LongWay - ShortWay)..LongWay

InitPlayout ==
    /\ game = NewGame(Walls)
    /\ aborted = FALSE
    /\ anneal = NoAnneal
    /\ tournament = NoTournament
    /\ last = NoCall
    /\ moves = 0
    /\ strategies = [p \in Players |-> NoStrategy]
    /\ chosen = None
    /\ status = "playing"
    /\ \E d1 \in StartDistances, d2 \in StartDistances, player \in Players :
          /\ d1 + d2 > 0
          /\ mcts = [pc |-> "playout",
                     plies |-> 0,
                     distance |-> [p \in Players |-> IF p = Player1 THEN d1 ELSE d2],
                     active_player |-> player,
                     winner |-> "none"]
    /\ notation = NoNotation

\* One turn of the loop `for _ in 0..max_sim_moves`, or its end
PlayoutPly ==
    /\ mcts.pc = "playout"
    /\ mcts' =
         IF mcts.plies = MaxSimMoves
         THEN [mcts EXCEPT !.pc = "returned", !.winner = "none"]
         ELSE IF mcts.distance[Player1] = 0
         THEN [mcts EXCEPT !.pc = "returned", !.winner = Player1]
         ELSE IF mcts.distance[Player2] = 0
         THEN [mcts EXCEPT !.pc = "returned", !.winner = Player2]
         ELSE [mcts EXCEPT !.plies = @ + 1,
                           !.distance[mcts.active_player] = @ - 1,
                           !.active_player = Opponent(@)]
    /\ UNCHANGED <<game, aborted, last, moves, strategies, chosen, status, notation, anneal, tournament>>

NextPlayout == PlayoutPly

SpecPlayout == InitPlayout /\ [][NextPlayout]_vars

-----------------------------------------------------------------------------
(* Properties of the board under checked calls.                            *)

Accepted(op) == last.op = op /\ last.ret = "true"
Rejected(op) == last.op = op /\ last.ret = "false"

\* The board a wall move would leave if it were placed without validation
Unvalidated(m) == AddWall(game, m, FALSE, FALSE)

\* C1: in every state reached by checked move_pawn and add_wall calls each
\* player's pawn has a path to a cell of its own goal rank: distance_to_goal
\* is below the unreachable value 100 for both players.
C1_Connectivity ==
    \A p \in Players :
        /\ DistanceToGoal(game, p) < Unreachable
        /\ \E goal \in GoalPositions(p) :
               HasPathConnecting(game.graph, game.pawn_positions[p], goal)

\* A wall has just been accepted, and some further wall would, if placed
\* without validation, leave a player without a path.
C1_Witness ==
    /\ Accepted("add_wall")
    /\ \E m \in WallMoves :
           /\ ~Unvalidated(m).panic
           /\ \E p \in Players : DistanceToGoal(Unvalidated(m).game, p) = Unreachable

\* C2: a checked move_pawn or add_wall that returns false leaves every field
\* of the board as it was (pawns, wall sets, edges, wall counts, active
\* player, last_move, state string).
C2_RejectedChangesNothing ==
    [][last'.ret = "false" => (game' = game /\ ~aborted')]_vars

\* Both kinds of call have been rejected on a board that already holds a wall.
C2_Witness ==
    /\ last.ret = "false"
    /\ game.hwall_positions \cup game.vwall_positions # {}
    /\ \E m \in CellLabels : ~MovePawn(game, m, TRUE).ret
    /\ \E m \in WallMoves : ~AddWall(game, m, FALSE, TRUE).ret

\* The wall moves excluded by a placed wall: the wall itself, the walls of
\* the same orientation one step along its axis, the perpendicular wall at
\* the same anchor.
ExcludedBy(anchor, orientation) ==
    LET along == IF orientation = "h"
                 THEN {<<anchor[1], anchor[2] - 1>>, <<anchor[1], anchor[2] + 1>>}
                 ELSE {<<anchor[1] - 1, anchor[2]>>, <<anchor[1] + 1, anchor[2]>>}
        other == IF orientation = "h" THEN "v" ELSE "h"
    IN  {CoordToAlgebraic(x, Size) \o <<orientation>> : x \in (along \cup {anchor}) \cap Cells}
          \cup {CoordToAlgebraic(anchor, Size) \o <<other>>}

PlacedWalls ==
    {<<x, "h">> : x \in game.hwall_positions} \cup {<<x, "v">> : x \in game.vwall_positions}

\* C3: once a wall is placed, a checked add_wall of the same wall, of a wall
\* of the same orientation one step along its axis, or of the perpendicular
\* wall at the same anchor is rejected and changes nothing; no two placed
\* walls abut in the same orientation or cross at one junction.
C3_WallExclusivity ==
    /\ \A w \in PlacedWalls : \A m \in ExcludedBy(w[1], w[2]) :
           AddWall(game, m, FALSE, TRUE) = Returned(FALSE, game)
    /\ \A x \in game.hwall_positions :
           <<x[1], x[2] + 1>> \notin game.hwall_positions /\ x \notin game.vwall_positions
    /\ \A x \in game.vwall_positions :
           <<x[1] + 1, x[2]>> \notin game.vwall_positions

\* A wall of each orientation is on the board and an add_wall has just been
\* rejected while the player to move still has a wall to place.
C3_Witness ==
    /\ game.hwall_positions # {}
    /\ game.vwall_positions # {}
    /\ Rejected("add_wall")
    /\ game.walls_available[game.active_player] > 0

\* C4: on every board of a match, whatever choose_move of the MCTS, Minimax
\* or Simulated Annealing strategy that is to move can return, it is None
\* exactly when the active player has neither a legal pawn move nor a legal
\* wall, and otherwise a move that the checked call accepts on that board;
\* no match ever stops on a move the board refused.
C4_ChooseMoveIsAccepted ==
    /\ status # "illegal"
    /\ \A res \in ChooseMove(strategies[game.active_player], game) :
          /\ ~res.move.some <=> AllMoves(game, game.active_player) = {}
          /\ res.move.some =>
               LET r == ApplyMove(game, res.move.value)
               IN  ~r.panic /\ r.ret

\* C4 witness: the second player's book named a move that was not legal when
\* its turn came, the book was passed over, and the move the search returned
\* instead was accepted by the board.
C4_Witness ==
    /\ moves = 2
    /\ status = "playing"
    /\ chosen.some
    /\ last.ret = "true"
    /\ strategies[Player2].base.move_counter = 1
    /\ strategies[Player2].base.opening_moves # <<>>
    /\ chosen.value # strategies[Player2].base.opening_moves[1]
    /\ game.active_player = Player1

\* C5: move_pawn and add_wall given a malformed move string or a
\* coordinate outside the board return false, never abort, and leave the
\* board as it was.
C5_MalformedReportsFalse ==
    /\ ~aborted
    /\ \A m \in Malformed :
           /\ MovePawn(game, m, TRUE) = Returned(FALSE, game)
           /\ AddWall(game, m, FALSE, TRUE) = Returned(FALSE, game)

\* C6: checked add_wall accepts a wall move, for any anchor of the board and
\* either orientation, exactly when get_legal_walls of the active player
\* lists it.
C6_CheckedEqualsEnumeration ==
    \A m \in WallMoves :
        AddWall(game, m, FALSE, TRUE).ret <=> m \in Range(GetLegalWalls(game, game.active_player))

\* The cell directly behind b as seen from a
Behind(a, b) == <<2 * b[1] - a[1], 2 * b[2] - a[2]>>

\* C7: when the opponent B stands on a graph-neighbour of A's cell: if the
\* cell behind B is on the board and joined to B's cell, A may jump there
\* and may not move to any other neighbour of B; otherwise A may move to
\* every neighbour of B other than A's own cell and not to the cell behind
\* B.  B's cell is never a destination.
C7_JumpRule ==
    \A A \in Players :
        LET a == game.pawn_positions[A]
            b == game.pawn_positions[Opponent(A)]
            legal == GetLegalMoves(game, A)
            around_b == Neighbors(game.graph, b)
        IN  b \in Neighbors(game.graph, a) =>
              /\ Label(b) \notin legal
              /\ IF Behind(a, b) \in Cells /\ {b, Behind(a, b)} \in game.graph
                 THEN /\ Label(Behind(a, b)) \in legal
                      /\ \A d \in around_b \ {a, Behind(a, b)} : Label(d) \notin legal
                 ELSE /\ \A d \in around_b \ {a} : Label(d) \in legal
                      /\ Behind(a, b) \in Cells => Label(Behind(a, b)) \notin legal

\* The pawns are neighbours, a wall lies behind the opponent and the
\* opponent has a neighbour to its side; a pawn move has just been made.
C7_Witness ==
    /\ Accepted("move_pawn")
    /\ \E A \in Players :
           LET a == game.pawn_positions[A]
               b == game.pawn_positions[Opponent(A)]
           IN  /\ b \in Neighbors(game.graph, a)
               /\ Behind(a, b) \in Cells
               /\ {b, Behind(a, b)} \notin game.graph
               /\ Neighbors(game.graph, b) \ {a} # {}

\* C8: when the opponent is not on a graph-neighbour of the player's cell,
\* get_legal_moves is exactly the labels of the graph-neighbours of the
\* player's cell, one label per neighbour; on the fresh board each player
\* has exactly three moves.
C8_PlainMoves ==
    /\ \A A \in Players :
           LET around_a == Neighbors(game.graph, game.pawn_positions[A])
               legal == GetLegalMoves(game, A)
           IN  game.pawn_positions[Opponent(A)] \notin around_a =>
                 /\ legal = {Label(n) : n \in around_a}
                 /\ Cardinality(legal) = Cardinality(around_a)
    /\ game = NewGame(Walls) =>
           \A A \in Players : Cardinality(GetLegalMoves(game, A)) = 3

\* A wall lies between a pawn and a cell next to it on the grid, and the
\* opponent is not its neighbour.
C8_Witness ==
    \E A \in Players :
        LET a == game.pawn_positions[A]
        IN  /\ game.pawn_positions[Opponent(A)] \notin Neighbors(game.graph, a)
            /\ Neighbors(game.graph, a) # Neighbors(InitializeBoardGraph(Size), a)
            /\ Neighbors(game.graph, a) # {}

\* The two edges a wall severs: a horizontal wall at (r, c) lies between rows
\* r-1 and r over columns c and c+1, a vertical wall between columns c and
\* c+1 over rows r and r-1.
SeveredBy(anchor, orientation) ==
    LET r == anchor[1]
        c == anchor[2]
    IN  IF orientation = "h"
        THEN {{<<r - 1, c>>, <<r, c>>}, {<<r - 1, c + 1>>, <<r, c + 1>>}}
        ELSE {{<<r, c>>, <<r, c + 1>>}, {<<r - 1, c>>, <<r - 1, c + 1>>}}

\* C9: an accepted wall placement removes exactly the two edges the wall
\* severs, adds its anchor to the wall set of its orientation, takes one wall
\* from the placing player only and leaves the pawns where they were; no
\* call ever adds an edge.
C9_WallPlacementFrame ==
    [][/\ game'.graph \subseteq game.graph
       /\ (last'.op = "add_wall" /\ last'.ret = "true") =>
            \E anchor \in Cells, o \in {"h", "v"} :
                /\ Cardinality(game.graph \ game'.graph) = 2
                /\ game.graph \ game'.graph = SeveredBy(anchor, o)
                /\ game'.hwall_positions =
                       game.hwall_positions \cup (IF o = "h" THEN {anchor} ELSE {})
                /\ game'.vwall_positions =
                       game.vwall_positions \cup (IF o = "v" THEN {anchor} ELSE {})
                /\ game'.walls_available =
                       [game.walls_available EXCEPT ![game.active_player] = @ - 1]
                /\ game'.pawn_positions = game.pawn_positions]_vars

\* C10: an accepted pawn move puts the active player's pawn on the
\* destination and leaves the opponent's pawn, both wall sets, the edges and
\* both wall counts as they were.
C10_PawnMoveFrame ==
    [][(last'.op = "move_pawn" /\ last'.ret = "true") =>
         \E dest \in Cells :
             /\ last'.arg = Label(dest)
             /\ game'.pawn_positions =
                    [game.pawn_positions EXCEPT ![game.active_player] = dest]
             /\ game'.hwall_positions = game.hwall_positions
             /\ game'.vwall_positions = game.vwall_positions
             /\ game'.graph = game.graph
             /\ game'.walls_available = game.walls_available]_vars

\* A pawn has just moved on a board that holds a wall.
C10_Witness ==
    /\ Accepted("move_pawn")
    /\ game.hwall_positions \cup game.vwall_positions # {}

-----------------------------------------------------------------------------
(* Turn order, consistency of graph and walls, wall counts.                *)

\* C11: turns alternate strictly.  Player 1 is to move exactly after an even
\* number of accepted calls; every accepted move_pawn or add_wall hands the
\* turn to the other player, records the move string as last_move and acts
\* on the player who was to move when it was called (that player's pawn or
\* that player's wall count, never the other's); a refused call leaves the
\* turn where it was.
C11_TurnsAlternate ==
    /\ [](game.active_player = Player1 <=> moves % 2 = 0)
    /\ [][/\ last'.ret = "true" =>
               /\ game'.active_player = Opponent(game.active_player)
               /\ game'.last_move = last'.arg
               /\ game'.previous_state = game.state_string
               /\ game'.pawn_positions[Opponent(game.active_player)]
                      = game.pawn_positions[Opponent(game.active_player)]
               /\ game'.walls_available[Opponent(game.active_player)]
                      = game.walls_available[Opponent(game.active_player)]
               /\ last'.op = "move_pawn" =>
                      game'.pawn_positions[game.active_player] # game.pawn_positions[game.active_player]
               /\ last'.op = "add_wall" =>
                      game'.walls_available[game.active_player]
                          = game.walls_available[game.active_player] - 1
          /\ last'.ret = "false" => game'.active_player = game.active_player]_vars

\* C11 witness: two calls were accepted, a pawn move of player 1 and then a
\* wall of player 2, and player 1 is to move again.
C11_Witness ==
    /\ moves = 2
    /\ game.active_player = Player1
    /\ Accepted("add_wall")
    /\ game.walls_available[Player2] = Walls - 1
    /\ game.walls_available[Player1] = Walls
    /\ game.pawn_positions[Player1] # NewGame(Walls).pawn_positions[Player1]

\* The pairs of orthogonally adjacent cells of the board
AdjacentPairs ==
    {e \in {{u, v} : u \in Cells, v \in Cells} :
        \E u \in e, v \in e : \/ (u[1] = v[1] /\ v[2] = u[2] + 1)
                              \/ (u[2] = v[2] /\ v[1] = u[1] + 1)}

\* The pairs of cells severed by the walls a board records
SeveredByRecordedWalls(g) ==
    UNION ({SeveredBy(a, "h") : a \in g.hwall_positions}
           \cup {SeveredBy(a, "v") : a \in g.vwall_positions})

\* C12: in every state reached by checked calls the graph has an edge between
\* two orthogonally adjacent cells exactly when no wall recorded in
\* hwall_positions or vwall_positions severs that pair, and it has no other
\* edge.
C12_GraphMatchesWalls ==
    /\ game.graph \subseteq AdjacentPairs
    /\ \A e \in AdjacentPairs : e \in game.graph <=> e \notin SeveredByRecordedWalls(game)

\* C12 witness: a horizontal and a vertical wall are recorded and the four
\* edges they sever are gone.
C12_Witness ==
    /\ game.hwall_positions # {}
    /\ game.vwall_positions # {}
    /\ Cardinality(AdjacentPairs \ game.graph) = 4
    /\ AdjacentPairs \ game.graph = SeveredByRecordedWalls(game)

\* C13: no wall count is ever below zero; a player with no wall left has no
\* legal wall move; and when that player is to move, no checked add_wall is
\* accepted, whatever its string: the board stays as it was, and for every
\* well-formed wall move the call returns false.
C13_NoWallsNoWallMoves ==
    /\ \A p \in Players :
         /\ game.walls_available[p] >= 0
         /\ game.walls_available[p] = 0 => GetLegalWalls(game, p) = <<>>
    /\ game.walls_available[game.active_player] = 0 =>
         /\ \A m \in WallMoves : AddWall(game, m, FALSE, TRUE) = Returned(FALSE, game)
         /\ \A m \in MoveStrings :
              LET r == AddWall(game, m, FALSE, TRUE)
              IN  ~r.ret /\ r.game = game

\* C13 witness: the player to move spent its last wall earlier in the game,
\* and a wall it asked for on this turn was refused although the opponent,
\* had it a wall, could place it.
C13_Witness ==
    /\ moves >= 2
    /\ game.walls_available[game.active_player] = 0
    /\ game.hwall_positions \cup game.vwall_positions # {}
    /\ Rejected("add_wall")
    /\ \E m \in WallMoves :
         AddWall([game EXCEPT !.walls_available[game.active_player] = 1],
                 m, FALSE, TRUE).ret

-----------------------------------------------------------------------------
(* The opening book and the searches.                                      *)

\* The scripted move a book holds at its counter
Scripted(base) == base.opening_moves[base.move_counter + 1]

C15_MinimaxDeterministic ==
    \A counter \in {0, 1} :
        Cardinality({res.move :
            res \in ChooseMove([kind |-> "minimax",
                                base |-> [opening_moves |-> SubSeq(<<Label(<<0, 0>>)>>, 1, counter),
                                          move_counter |-> counter]], game)}) = 1

\* Whether the main loop of the search was entered
LoopEntered == mcts.nodes # <<>>

\* C16: the MCTS search loop always terminates.  Every iteration starts from
\* the budget check; the loop runs at most simulation_limit iterations, and
\* exactly simulation_limit of them when no time budget is set; selection
\* descends no deeper than the iterations run so far, a playout lasts at most
\* max_sim_moves plies; and the search ends, returning one of the root moves.
C16_SearchTerminates ==
    /\ [](/\ mcts.simulations_run <= SimulationLimit + 1
          /\ mcts.iterations <= SimulationLimit
          /\ mcts.iterations <= mcts.simulations_run
          /\ Len(mcts.path) <= mcts.iterations + 1
          /\ mcts.plies <= MaxSimMoves
          /\ mcts.pc = "done" /\ LoopEntered /\ ~mcts.time_limit
               => mcts.iterations = SimulationLimit
          /\ mcts.pc = "done" => mcts.result \in AllMoves(game, game.active_player))
    /\ [][mcts'.pc = "select" /\ mcts.pc # "select" => mcts.pc = "check"]_vars
    /\ <>(mcts.pc = "done")

C16_Witness ==
    /\ mcts.pc = "done"
    /\ ~mcts.time_limit
    /\ mcts.iterations = SimulationLimit
    /\ mcts.result \in AllMoves(game, game.active_player)

\* The root's children, as paths of the tree
RootChildren == {<<i>> : i \in 1..mcts.nodes[<<>>].children}

\* C17: when the search loop ends with at least one expanded root child, the
\* move returned is the move of a root child that no root child has more
\* visits than.
C17_MostVisitedChild ==
    mcts.pc = "done" /\ LoopEntered /\ RootChildren # {}
        => \E c \in RootChildren :
             /\ mcts.result = mcts.nodes[c].move_str
             /\ \A d \in RootChildren : mcts.nodes[d].visits <= mcts.nodes[c].visits

\* A search returns the move of a child with the most visits while another
\* child has the higher average score.
C17_Witness ==
    /\ mcts.pc = "done"
    /\ LoopEntered
    /\ \E c \in RootChildren, d \in RootChildren :
         /\ mcts.result = mcts.nodes[c].move_str
         /\ mcts.nodes[d].visits <= mcts.nodes[c].visits
         /\ mcts.nodes[d].wins * mcts.nodes[c].visits
              > mcts.nodes[c].wins * mcts.nodes[d].visits

\* The legal pawn moves of the active player that land on its goal rank
MovesOntoGoalRank(g) ==
    {m \in GetLegalMoves(g, g.active_player) :
        AlgebraicToCoord(m, Size).coord[1]
            = IF g.active_player = Player1 THEN 0 ELSE Size - 1}

\* Strategy objects whose opening book is empty, or holds one move
SearchingStrategies ==
    {NewStrategy(kind, opening_moves) :
        kind \in {"minimax", "simulated_annealing"},
        opening_moves \in {<<>>, <<Label(<<0, 0>>)>>}}

\* C18: when the opening book yields no move for the call and some legal pawn
\* move of the active player lands on that player's goal rank, choose_move of
\* Minimax and of Simulated Annealing returns such a move.
C18_InstantWinFirst ==
    \A strategy \in SearchingStrategies :
        ~TryOpeningMove(strategy.base, game).move.some /\ MovesOntoGoalRank(game) # {}
            => \A res \in ChooseMove(strategy, game) :
                 res.move.some /\ res.move.value \in MovesOntoGoalRank(game)

\* A board where the player to move can step onto its goal rank and has
\* other moves as well, and a book whose move is illegal there.
C18_Witness ==
    /\ MovesOntoGoalRank(game) # {}
    /\ AllMoves(game, game.active_player) \ MovesOntoGoalRank(game) # {}
    /\ game.walls_available[game.active_player] > 0
    /\ \E strategy \in SearchingStrategies :
         /\ strategy.base.opening_moves # <<>>
         /\ ~TryOpeningMove(strategy.base, game).move.some
         /\ \E res \in ChooseMove(strategy, game) :
              res.move.some /\ res.move.value \in MovesOntoGoalRank(game)

\* C19: choose_move leaves the board it is given alone, and changes nothing
\* of the strategy but the opening-book counter.  Every strategy object
\* choose_move can leave differs from the one it was called on in the
\* counter at most; over a turn of a match the opponent's strategy is
\* untouched, the move was chosen for the board as it stood before the turn,
\* and the board after the turn is that board with the chosen move applied
\* once (the same board when no move was chosen).
C19_ChooseMoveKeepsBoard ==
    /\ [](\A res \in ChooseMove(strategies[game.active_player], game) :
            res.strategy = [strategies[game.active_player] EXCEPT
                               !.base.move_counter = res.strategy.base.move_counter])
    /\ [][LET mover == game.active_player
          IN  /\ strategies'[Opponent(mover)] = strategies[Opponent(mover)]
              /\ strategies'[mover] = [strategies[mover] EXCEPT
                                          !.base.move_counter =
                                              strategies'[mover].base.move_counter]
              /\ \E res \in ChooseMove(strategies[mover], game) : chosen' = res.move
              /\ game' = IF chosen'.some THEN ApplyMove(game, chosen'.value).game
                                         ELSE game]_vars

\* The first turn of an MCTS player whose one-move book was illegal: the
\* search ran over clones and a wall was chosen and placed.
C19_Witness ==
    /\ moves = 1
    /\ strategies[Player1].kind = "mcts"
    /\ strategies[Player1].base.opening_moves # <<>>
    /\ strategies[Player1].base.move_counter = 1
    /\ chosen.some
    /\ IsWallMove(chosen.value)
    /\ chosen.value # strategies[Player1].base.opening_moves[1]
    /\ game.last_move = chosen.value

\* C20: on a board of size 9, decoding the notation of a coordinate gives the
\* coordinate back; row 0 is written as row number 9 and column 0 as the
\* letter a.
C20_NotationRoundTrip ==
    /\ notation.pc = "decoded"
         => ~notation.decoded.panic /\ notation.decoded.coord = notation.coord
    /\ notation.pc \in {"text", "decoded"}
         => /\ Len(notation.text) = 2
            /\ notation.coord[1] = 0 <=> notation.text[2] = "9"
            /\ notation.coord[2] = 0 <=> notation.text[1] = "a"

C20_Witness ==
    /\ notation.pc = "decoded"
    /\ notation.coord = <<0, 0>>
    /\ notation.text = <<"a", "9">>
    /\ notation.decoded = [panic |-> FALSE, coord |-> <<0, 0>>]

\* The cell label of a string: a wall label is a cell label followed by an
\* orientation letter
CellLabelOf(str) ==
    IF Len(str) > 2 /\ str[Len(str)] \in {"h", "v"} THEN SubSeq(str, 1, Len(str) - 1)
    ELSE str

\* The labels the decoding has to reject on a board of board_size: shorter
\* than two characters, a first character that is no letter, a column letter
\* beyond the last column, a row part that is no number in 1..board_size
BadLabel(str, board_size) ==
    \/ Len(str) < 2
    \/ ~IsAsciiAlphabetic(str[1])
    \/ IndexOf(LowerCase, ToAsciiLowercase(str[1])) > board_size
    \/ LET row == ParseUsize(Tail(CellLabelOf(str)))
       IN  ~(row.ok /\ row.val >= 1 /\ row.val <= board_size)

\* C21: algebraic_to_coord signals failure, and gives no coordinate, for
\* every string shorter than two characters, with a first character that is
\* no letter, with a column letter beyond the last column, or with a row part
\* that is no number in 1..board_size.
C21_BadLabelsRejected ==
    notation.pc = "decoded" /\ BadLabel(notation.text, TEST_SIZE)
        => notation.decoded.panic

-----------------------------------------------------------------------------
(* Properties of the board's read-only questions                           *)

\* The strings of two characters that name a cell of the given row; the
\* column letter is read in either case.
PawnMovesTo(row) ==
    {m \in MoveStrings : /\ Len(m) = 2
                         /\ \E c \in Rows : <<ToAsciiLowercase(m[1]), m[2]>> = Label(<<row, c>>)}

GoalRow(p) == IF p = Player1 THEN 0 ELSE Size - 1

\* C22: win_check(move) answers true if and only if the move is a pawn move,
\* a two-character cell label and no wall move, whose cell lies in the goal
\* rank of the active player (row 0 for Player 1, row size-1 for Player 2),
\* and the call leaves the board as it was.
C22_WinCheck ==
    /\ [](last.op = "win_check" =>
            (last.ret = "true" <=> last.arg \in PawnMovesTo(GoalRow(game.active_player))))
    /\ [][last'.op = "win_check" => game' = game]_vars

\* win_check has answered true to Player 2 on a board that holds a wall.
C22_Witness ==
    /\ last.op = "win_check"
    /\ last.ret = "true"
    /\ game.active_player = Player2
    /\ game.hwall_positions \cup game.vwall_positions # {}

\* The cells joined to `from` by a path of at most k edges of the graph
RECURSIVE Within(_, _, _)
Within(graph, from, k) ==
    IF k = 0 THEN {from}
    ELSE UNION {{v : v \in near \cup {w \in Cells : \E u \in near : {u, w} \in graph}} :
                  near \in {Within(graph, from, k - 1)}}

\* d is the length of a shortest path from `from` to a cell of `targets`
IsShortestLength(graph, from, targets, d) ==
    /\ Within(graph, from, d) \cap targets # {}
    /\ d > 0 => Within(graph, from, d - 1) \cap targets = {}

CanReach(graph, from, targets) ==
    Within(graph, from, Cardinality(Cells)) \cap targets # {}

FreshBoard(g) ==
    /\ g.graph = InitializeBoardGraph(Size)
    /\ g.pawn_positions = NewGame(Walls).pawn_positions

\* C23: distance_to_goal(p) is the length of a shortest path in the graph
\* from p's pawn cell to the nearest cell of p's goal rank, pawns not
\* blocking; it is 0 exactly when the pawn stands on its goal rank and the
\* sentinel 100 exactly when no goal cell can be reached; on a fresh board
\* it is size-1 for both players (8 on 9x9).
C23_DistanceToGoal ==
    last.op = "distance_to_goal" =>
        LET p == last.arg
            from == game.pawn_positions[p]
            goal == GoalPositions(p)
        IN  /\ CanReach(game.graph, from, goal)
                  => IsShortestLength(game.graph, from, goal, last.ret)
            /\ last.ret = 0 <=> from[1] = GoalRow(p)
            /\ last.ret = Unreachable <=> ~CanReach(game.graph, from, goal)
            /\ FreshBoard(game) => last.ret = Size - 1

\* distance_to_goal has answered with the length of a way round a wall:
\* longer than the number of rows to cross, yet a path.
C23_Witness ==
    /\ last.op = "distance_to_goal"
    /\ last.ret < Unreachable
    /\ LET from == game.pawn_positions[last.arg]
       IN  last.ret > IF from[1] > GoalRow(last.arg) THEN from[1] - GoalRow(last.arg)
                      ELSE GoalRow(last.arg) - from[1]

\* The row next to `row` in the direction of p's goal
NextRowToward(p, row) == IF p = Player1 THEN row - 1 ELSE row + 1

-----------------------------------------------------------------------------
(* Properties of construction from a serialized state                      *)

\* C25: State-string round trip: for every state reached by checked moves,
\* the board constructed from the state's serialized state string has the
\* same horizontal and vertical wall sets, the same graph edges, the same
\* two pawn positions, the same walls-remaining counts and the same active
\* player.
C25_StateStringRoundTrip ==
    last.op = "new" =>
        /\ ~last.ret.panic
        /\ last.ret.game.hwall_positions = game.hwall_positions
        /\ last.ret.game.vwall_positions = game.vwall_positions
        /\ last.ret.game.graph = game.graph
        /\ last.ret.game.pawn_positions = game.pawn_positions
        /\ last.ret.game.walls_available = game.walls_available
        /\ last.ret.game.active_player = game.active_player

\* A board holding a horizontal and a vertical wall, with a pawn moved and
\* Player 2 to move, has been constructed again from its state string.
C25_Witness ==
    /\ last.op = "new"
    /\ ~last.ret.panic
    /\ game.hwall_positions # {}
    /\ game.vwall_positions # {}
    /\ game.pawn_positions # NewGame(Walls).pawn_positions
    /\ game.active_player = Player2
    /\ last.ret.game.state_string = game.state_string

\* The two-character pieces of a wall list, a last odd character included
RECURSIVE Pieces(_)
Pieces(str) ==
    IF Len(str) <= 2 THEN (IF str = <<>> THEN {} ELSE {str})
    ELSE {SubSeq(str, 1, 2)} \cup Pieces(SubSeq(str, 3, Len(str)))

IsNumber(str) == str # <<>> /\ \A i \in DOMAIN str : str[i] \in Range(DigitChars)

\* The serialized state is malformed as the claim lists it
MalformedState(str) ==
    LET parts == SplitOn(str, "/")
    IN  \/ Len(parts) # 5
        \/ /\ Len(parts) = 5
           /\ \/ \E k \in 1..2 : Pieces(Trim(parts[k])) \ CellLabels # {}
              \/ LET pawn_parts == SplitWhitespace(Trim(parts[3]))
                 IN  Len(pawn_parts) # 2 \/ Range(pawn_parts) \ CellLabels # {}
              \/ LET counts == SplitWhitespace(Trim(parts[4]))
                 IN  Len(counts) # 2 \/ \E k \in DOMAIN counts : ~IsNumber(counts[k])
              \/ Trim(parts[5]) \notin {<<"1">>, <<"2">>}

\* C26: Invalid configuration is fatal at construction: Quoridor::new yields
\* no board when the size is even or below 3, or when the serialized state
\* is malformed: not exactly five '/'-separated fields, a wall list that is
\* not a whole number of 2-character cell labels, wall counts that are not
\* two numbers, a pawn field without two labels, or an active player other
\* than 1 or 2.
C26_InvalidConfigurationFatal ==
    /\ last.op = "new"
    /\ \/ last.arg.size < 3
       \/ last.arg.size % 2 = 0
       \/ MalformedState(last.arg.state_string)
    => last.ret.panic

-----------------------------------------------------------------------------
(* Properties of the Minimax search                                        *)

\* The moves minimax_alphabeta tries at a position, in its order
MovesAt(g) ==
    InOrder(GetLegalMoves(g, g.active_player)) \o GetLegalWalls(g, g.active_player)

\* The positions one applied move away
Children(g) ==
    {r.game : r \in {x \in {ApplyUnchecked(g, m) : m \in Range(MovesAt(g))} : x.ret}}

Greatest(scores) == CHOOSE v \in scores : \A w \in scores : ScoreLessEq(w, v)
Least(scores) == CHOOSE v \in scores : \A w \in scores : ScoreLessEq(v, w)

\* Minimax of the given depth over the whole tree, without alpha and beta
RECURSIVE ExhaustiveMinimax(_, _, _)
ExhaustiveMinimax(g, depth, is_maximizing_player) ==
    IF g.pawn_positions[Opponent(g.active_player)] \in GoalPositions(Opponent(g.active_player))
    THEN IF Opponent(g.active_player) = Player1 THEN Infinity ELSE NegInfinity
    ELSE IF depth = 0 THEN EvaluateState(g)
    ELSE IF MovesAt(g) = <<>>
    THEN IF is_maximizing_player THEN NegInfinity ELSE Infinity
    ELSE LET values == {ExhaustiveMinimax(c, depth - 1, ~is_maximizing_player) :
                            c \in Children(g)}
         IN  IF is_maximizing_player THEN Greatest(values \cup {NegInfinity})
             ELSE Least(values \cup {Infinity})

\* The exact value of a first move: the minimizing layer below it, searched
\* exhaustively to depth SearchDepth - 1
ExactValueOfMove(g, m) ==
    ExhaustiveMinimax(ApplyUnchecked(g, m).game, SearchDepth - 1, FALSE)

\* C28: Alpha-beta pruning is sound: at every position and every remaining
\* depth d, minimax_alphabeta called with the full window returns the value
\* of an exhaustive minimax of depth d without pruning, so the move
\* choose_move returns from its search attains the maximum, over all legal
\* moves, of the exact value of the minimizing layer of depth D-1.
C28_AlphaBetaSound ==
    /\ last.op = "minimax_alphabeta" =>
          last.ret = ExhaustiveMinimax(game, last.arg.depth, last.arg.is_maximizing_player)
    /\ last.op = "choose_move"
          /\ WinningMoves(game, game.active_player) = {}
          /\ AllMoves(game, game.active_player) # {}
          => \A mv \in last.ret :
                /\ mv.some
                /\ mv.value \in AllMoves(game, game.active_player)
                /\ \A m \in AllMoves(game, game.active_player) :
                      ScoreLessEq(ExactValueOfMove(game, m), ExactValueOfMove(game, mv.value))

\* minimax_alphabeta has searched, to depth SearchDepth, a maximizing node
\* at which a cutoff happens: the first move tried below the second child
\* is already no better than the first child's value, and the second child
\* has further moves, which are skipped.
C28_Witness ==
    /\ last.op = "minimax_alphabeta"
    /\ last.arg.depth = SearchDepth
    /\ last.arg.is_maximizing_player
    /\ last.ret.inf = 0
    /\ Len(MovesAt(game)) >= 2
    /\ LET first == ApplyUnchecked(game, MovesAt(game)[1]).game
           second == ApplyUnchecked(game, MovesAt(game)[2]).game
       IN  /\ Len(MovesAt(second)) >= 2
           /\ ExhaustiveMinimax(first, SearchDepth - 1, FALSE).inf = 0
           /\ ScoreLessEq(
                 ExhaustiveMinimax(ApplyUnchecked(second, MovesAt(second)[1]).game,
                                   SearchDepth - 2, TRUE),
                 ExhaustiveMinimax(first, SearchDepth - 1, FALSE))

-----------------------------------------------------------------------------
(* Properties of the tree search's bookkeeping                             *)

\* The children of the node at path p
ChildrenOf(p) == {Append(p, i) : i \in 1..mcts.nodes[p].children}

RECURSIVE SumVisits(_)
SumVisits(ps) ==
    IF ps = {} THEN 0
    ELSE LET p == CHOOSE q \in ps : TRUE
         IN  mcts.nodes[p].visits + SumVisits(ps \ {p})

\* The node at path p lies on the selection path: p leads from the root
\* towards the last node of mcts.path
OnSelectionPath(p) == Len(p) <= Len(mcts.path) /\ p = SubSeq(mcts.path, 1, Len(p))

-----------------------------------------------------------------------------
(* Properties of the playout                                               *)

\* The players whose pawn stands on its goal rank
OnGoalRank == {p \in Players : mcts.distance[p] = 0}

MaxRounds == 1

\* run_search clones the root, applies the expanded move and starts the playout
BeginPlayout(m) ==
    /\ ~aborted
    /\ mcts = NoSearch
    /\ m \in AllMoves(game, game.active_player)
    /\ mcts' = [pc |-> "playout", sim |-> ApplyMove(game, m).game,
                plies |-> 0, winner |-> "none"]
    /\ UNCHANGED <<game, aborted, last, moves, strategies, chosen, status, notation, anneal, tournament>>

\* One of the first rounds of the playout
PlayoutRound ==
    /\ mcts.pc = "playout"
    /\ mcts.plies < MaxRounds
    /\ Playout

\* A checked call of the callers that the board accepts, before the search
OpeningMove(m) ==
    /\ mcts = NoSearch
    /\ moves < MaxMoves
    /\ \E r \in {IF IsWallMove(m) THEN AddWall(game, m, FALSE, TRUE)
                                  ELSE MovePawn(game, m, TRUE)} :
         /\ ~r.panic
         /\ r.ret
         /\ game' = r.game
    /\ moves' = moves + 1
    /\ UNCHANGED <<aborted, last, strategies, chosen, status, mcts, notation, anneal, tournament>>

NextGreedy ==
    \/ \E m \in CellLabels \cup WallMoves : OpeningMove(m)
    \/ \E m \in CellLabels \cup WallMoves : BeginPlayout(m)
    \/ PlayoutRound

SpecGreedy == Init /\ [][NextGreedy]_vars

\* ---------------------------------------------------------------------------
\* C31: the first branch of the playout heuristic

\* The playout round starting in sim takes the first branch of the heuristic
GreedyBranch(sim) ==
    \/ DistanceToGoal(sim, sim.active_player)
         <= DistanceToGoal(sim, Opponent(sim.active_player))
    \/ sim.walls_available[sim.active_player] = 0

\* The least distance to goal the mover has after one of its legal pawn moves
LeastDistanceAfterPawnMove(sim) ==
    CHOOSE d \in {t[2] : t \in TriedPawnMoves(sim, sim.active_player)} :
        \A t \in TriedPawnMoves(sim, sim.active_player) : d <= t[2]

\* C31: whenever a playout round takes the first branch of the heuristic (the
\* mover is not farther from its goal than the opponent, or has no wall left)
\* and plays a move, the mover's distance to goal after that move is the least
\* one over all its legal pawn moves, also when no move shortens the distance.
C31_GreedyPlayoutMove ==
    [][(/\ mcts.pc = "playout"
        /\ mcts'.pc = "playout"
        /\ mcts'.plies = mcts.plies + 1
        /\ GreedyBranch(mcts.sim))
       => DistanceToGoal(mcts'.sim, mcts.sim.active_player)
            = LeastDistanceAfterPawnMove(mcts.sim)]_vars

\* ---------------------------------------------------------------------------
\* C32: the bookkeeping of the expansion step

\* The searches of SpecSearch, and one on a board where the first player
\* holds a wall and is one step from its goal rank, so that an expanded move
\* can be a wall and can end the game
ExpansionBoards ==
    SearchBoards
    \cup {UpdateStateString([NewGame(1) EXCEPT !.pawn_positions[Player1] = <<1, 0>>,
                                               !.walls_available[Player2] = 0], TRUE)}

InitExpansion ==
    /\ game \in ExpansionBoards
    /\ aborted = FALSE
    /\ anneal = NoAnneal
    /\ tournament = NoTournament
    /\ last = NoCall
    /\ moves = 0
    /\ strategies = [p \in Players |-> NewStrategy("mcts", <<>>)]
    /\ chosen = None
    /\ status = "playing"
    /\ notation = NoNotation
    /\ \E time_limit \in BOOLEAN :
         mcts = [pc |-> "start",
                 time_limit |-> time_limit,
                 simulations_run |-> 0,
                 iterations |-> 0,
                 nodes |-> <<>>,
                 path |-> <<>>,
                 sim |-> game,
                 plies |-> 0,
                 winner |-> "none",
                 result |-> <<>>]

SpecExpansion == InitExpansion /\ [][NextSearch]_vars

\* The board of the node at path p: the root board after the moves on the path
RECURSIVE StateAt(_)
StateAt(p) ==
    IF p = <<>> THEN game
    ELSE ApplyMove(StateAt(SubSeq(p, 1, Len(p) - 1)), mcts.nodes[p].move_str).game

\* The legal pawn and wall moves of the player to move on board g, none when
\* the game is over on it
MovesToTry(g) == IF IsTerminal(g) THEN {} ELSE AllMoves(g, g.active_player)

\* The moves of the expanded children of the node at path p
ChildMoves(p) == {mcts.nodes[c].move_str : c \in ChildrenOf(p)}

WinRateForParentTimesVisits(node) == node.visits - node.wins

\* C33: for every node with at least one visit the first term of its UCT
\* value, (visits - wins) / visits, lies between 0 and 1: the accumulated
\* score of the node is not negative and does not exceed its visit count.
C33_ExploitationTermIsWinRate ==
    LoopEntered =>
       \A p \in DOMAIN mcts.nodes :
          mcts.nodes[p].visits >= 1 =>
             /\ 0 <= WinRateForParentTimesVisits(mcts.nodes[p])
             /\ WinRateForParentTimesVisits(mcts.nodes[p]) <= mcts.nodes[p].visits

\* ---------------------------------------------------------------------------
\* C34: SimulatedAnnealingStrategy::choose_move, one loop round per step

\* max_global_iterations and max_local_iterations: 500 each in the program
MaxGlobalIterations == 2
MaxLocalIterations == 2

\* SimulatedAnnealingStrategy::evaluate_position: the same weighted sum as
\* MinimaxStrategy::evaluate_state
EvaluatePosition(g) == EvaluateState(g)

\* select_opponent_best_move: the moves it can return.  The pawn moves come
\* first, in the arbitrary order of a HashSet, then the walls in the order of
\* get_legal_walls; the first move with the least score is kept.
SelectOpponentBestMove(g) ==
    UNION {UNION {IF scored = {} THEN {None}
                  ELSE LET least(t) == \A u \in scored : ScoreLessEq(t[2], u[2])
                           least_pawns == {t[1] : t \in {u \in scored : u[3] = 0 /\ least(u)}}
                           least_walls == {t[3] : t \in {u \in scored : u[3] > 0 /\ least(u)}}
                       IN  IF least_pawns # {}
                           THEN {Some(m) : m \in least_pawns}
                           ELSE {Some(wall_moves[CHOOSE i \in least_walls :
                                                    \A j \in least_walls : i <= j])} :
                  scored \in {
                    UNION {{<<m, EvaluatePosition(r.game), 0>> :
                              r \in {x \in {ApplyUnchecked(g, m)} : x.ret}} :
                           m \in GetLegalMoves(g, g.active_player)}
                    \cup
                    UNION {{<<wall_moves[i], EvaluatePosition(r.game), i>> :
                              r \in {x \in {ApplyUnchecked(g, wall_moves[i])} : x.ret}} :
                           i \in DOMAIN wall_moves}}} :
           wall_moves \in {GetLegalWalls(g, g.active_player)}}

\* Whether a candidate is kept: always when the score rises, and by the draw
\* rng.gen::<f64>() < (delta / temp).exp() otherwise; exp(0) = 1 is above
\* every draw, a negative delta leaves both outcomes open
Accepts(score_after, score_before) ==
    IF ScoreLess(score_after, score_before) THEN BOOLEAN ELSE {TRUE}

\* The end of a range 1..=cap after `time` rounds
RangeNeverOver(time, cap) == FALSE
RangeOver(time, cap) == time = cap

\* The boards choose_move is asked on
AnnealBoards == ExpansionBoards \cup {NewGame(FewWalls)}

\* A call of choose_move on one of the given boards, about to begin
AnnealStart(boards) ==
    /\ game \in boards
    /\ aborted = FALSE
    /\ last = NoCall
    /\ moves = 0
    /\ strategies = [p \in Players |-> NewStrategy("simulated_annealing", <<>>)]
    /\ chosen = None
    /\ status = "playing"
    /\ mcts = NoSearch
    /\ notation = NoNotation
    /\ tournament = NoTournament
    /\ anneal = [pc |-> "start",
                 time1 |-> 0,
                 time2 |-> 0,
                 candidate_first_move |-> <<>>,
                 opponent_best_response |-> <<>>,
                 best_overall_move |-> None,
                 result |-> None]

InitAnneal == AnnealStart(AnnealBoards)

\* The boards of the runs whose end is awaited: no wall in hand, the pawns
\* on any two cells off their goal ranks, the first player to move
OpenBoards ==
    {UpdateStateString([NewGame(0) EXCEPT !.pawn_positions[Player1] = c[1],
                                          !.pawn_positions[Player2] = c[2]], TRUE) :
        c \in {x \in Cells \X Cells : x[1][1] > 0 /\ x[2][1] < Size - 1 /\ x[1] # x[2]}}

InitAnnealOpen == AnnealStart(OpenBoards)

\* choose_move up to the global loop, with an empty opening book
AnnealBegin ==
    /\ anneal.pc = "start"
    /\ LET player == game.active_player
           all_player_moves == AllMoves(game, player)
       IN  IF all_player_moves = {}
           THEN anneal' = [anneal EXCEPT !.pc = "done", !.result = None]
           ELSE IF WinningMoves(game, player) # {}
           THEN \E move_str \in WinningMoves(game, player) :
                  anneal' = [anneal EXCEPT !.pc = "done", !.result = Some(move_str)]
           ELSE anneal' = [anneal EXCEPT !.pc = "global"]
    /\ UNCHANGED <<game, aborted, last, moves, strategies, chosen, status, mcts, notation, tournament>>

\* One round of the global loop up to the local loop, or the fallback after
\* its last round
GlobalIteration ==
    /\ anneal.pc = "global"
    /\ IF RangeOver(anneal.time1, MaxGlobalIterations)
       THEN \E move_str \in AllMoves(game, game.active_player) :
              anneal' = [anneal EXCEPT !.pc = "done", !.result = Some(move_str)]
       ELSE \E candidate_first_move \in AllMoves(game, game.active_player) :
            \E r1 \in {ApplyUnchecked(game, candidate_first_move)} :
              LET next == [anneal EXCEPT !.time1 = @ + 1]
              IN  IF ~r1.ret THEN anneal' = next
                  ELSE \E response \in SelectOpponentBestMove(r1.game) :
                         IF ~response.some
                         THEN anneal' = [next EXCEPT
                                           !.pc = "done",
                                           !.best_overall_move = Some(candidate_first_move),
                                           !.result = Some(candidate_first_move)]
                         ELSE \E r2 \in {ApplyUnchecked(r1.game, response.value)} :
                                IF ~r2.ret \/ AllMoves(r2.game, game.active_player) = {}
                                THEN anneal' = next
                                ELSE anneal' = [next EXCEPT
                                                  !.pc = "local",
                                                  !.time2 = 0,
                                                  !.candidate_first_move = candidate_first_move,
                                                  !.opponent_best_response = response.value]
    /\ UNCHANGED <<game, aborted, last, moves, strategies, chosen, status, mcts, notation, tournament>>

\* One round of the local loop; when it keeps a second move, or after its
\* last round, the rest of the round of the global loop
LocalIteration ==
    /\ anneal.pc = "local"
    /\ \E game_after_first \in {ApplyUnchecked(game, anneal.candidate_first_move).game} :
       \E game_after_opponent \in
             {ApplyUnchecked(game_after_first, anneal.opponent_best_response).game} :
         IF RangeOver(anneal.time2, MaxLocalIterations)
         THEN anneal' = [anneal EXCEPT !.pc = "global"]
         ELSE \E candidate_second_move \in AllMoves(game_after_opponent, game.active_player) :
              \E r3 \in {ApplyUnchecked(game_after_opponent, candidate_second_move)} :
                LET next == [anneal EXCEPT !.time2 = @ + 1]
                IN  IF ~r3.ret THEN anneal' = next
                    ELSE \E found \in Accepts(EvaluatePosition(r3.game),
                                              EvaluatePosition(game_after_opponent)) :
                           IF ~found THEN anneal' = next
                           ELSE \E accepted \in Accepts(EvaluatePosition(game_after_first),
                                                        EvaluatePosition(game)) :
                                  IF accepted
                                  THEN anneal' = [next EXCEPT
                                         !.pc = "done",
                                         !.best_overall_move = Some(anneal.candidate_first_move),
                                         !.result = Some(anneal.candidate_first_move)]
                                  ELSE anneal' = [next EXCEPT !.pc = "global"]
    /\ UNCHANGED <<game, aborted, last, moves, strategies, chosen, status, mcts, notation, tournament>>

NextAnneal == AnnealBegin \/ GlobalIteration \/ LocalIteration

SpecAnneal == InitAnneal /\ [][NextAnneal]_vars

\* The loops are plain for loops: every round that is begun is finished
SpecAnnealFair == InitAnnealOpen /\ [][NextAnneal]_vars /\ WF_vars(NextAnneal)

\* C34: choose_move of Simulated Annealing returns; the global loop runs at
\* most max_global_iterations rounds and the local loop at most
\* max_local_iterations rounds per round of the global loop, the counters
\* advancing by one per round; a call that returns without having accepted a
\* candidate of the global loop returns a legal move of the deciding player,
\* or nothing when that player has no legal move.
C34_AnnealingTerminates ==
    /\ <>(anneal.pc = "done")
    /\ [](/\ anneal.time1 \in 0..MaxGlobalIterations
          /\ anneal.time2 \in 0..MaxLocalIterations
          /\ anneal.pc = "done" /\ ~anneal.best_overall_move.some =>
                IF AllMoves(game, game.active_player) = {}
                THEN anneal.result = None
                ELSE /\ anneal.result.some
                     /\ anneal.result.value \in AllMoves(game, game.active_player))
    /\ [][/\ anneal'.time1 \in {anneal.time1, anneal.time1 + 1}
          /\ anneal'.time2 \in {0, anneal.time2, anneal.time2 + 1}
          /\ anneal'.time2 = 0 /\ anneal.time2 # 0 => anneal'.time1 = anneal.time1 + 1]_vars

\* Both loops ran all their rounds without an accepted candidate and the
\* call returned a move by the fallback
C34_Witness ==
    /\ anneal.pc = "done"
    /\ anneal.time1 = MaxGlobalIterations
    /\ anneal.time2 = MaxLocalIterations
    /\ ~anneal.best_overall_move.some
    /\ anneal.result.some

\* ---------------------------------------------------------------------------
\* C35 and C36: the pawns in the states reached by checked calls

\* No pawn stands on its own goal rank
GameUndecided(g) ==
    g.pawn_positions[Player1] \notin GoalPositions(Player1)
      /\ g.pawn_positions[Player2] \notin GoalPositions(Player2)

\* C35: in every state reached from a fresh board by checked calls in which
\* neither pawn stands on its own goal rank, get_legal_moves of the active
\* player is not empty.
C35_NoStalemate ==
    ~aborted /\ GameUndecided(game) => GetLegalMoves(game, game.active_player) # {}

\* The active player stands next to the opponent and cannot jump straight
\* over it, with a wall on the board, in an undecided game
C35_Witness ==
    /\ ~aborted
    /\ GameUndecided(game)
    /\ game.hwall_positions \cup game.vwall_positions # {}
    /\ LET own_pos == game.pawn_positions[game.active_player]
           opponent_pos == game.pawn_positions[Opponent(game.active_player)]
           jump_pos == <<2 * opponent_pos[1] - own_pos[1], 2 * opponent_pos[2] - own_pos[2]>>
       IN  /\ ContainsEdge(game.graph, own_pos, opponent_pos)
           /\ ~(OnBoard(jump_pos) /\ ContainsEdge(game.graph, opponent_pos, jump_pos))

\* The cells get_legal_moves names for the player
LegalDestinations(g, player) ==
    {AlgebraicToCoord(m, Size).coord : m \in GetLegalMoves(g, player)}

\* C36: in every state reached from a fresh board by checked calls both pawns
\* stand on cells of the board and on different cells, and no cell named by
\* get_legal_moves is the mover's own cell or the opponent's cell.
C36_PawnsNeverCollide ==
    ~aborted =>
       /\ \A p \in Players : game.pawn_positions[p] \in Cells
       /\ game.pawn_positions[Player1] # game.pawn_positions[Player2]
       /\ \A p \in Players :
             LegalDestinations(game, p) \cap {game.pawn_positions[Player1],
                                              game.pawn_positions[Player2]} = {}

\* The pawns stand next to each other after both have moved, and the player
\* to move can jump straight over the opponent
C36_Witness ==
    /\ ~aborted
    /\ game.pawn_positions # NewGame(Walls).pawn_positions
    /\ LET own_pos == game.pawn_positions[game.active_player]
           opponent_pos == game.pawn_positions[Opponent(game.active_player)]
           jump_pos == <<2 * opponent_pos[1] - own_pos[1], 2 * opponent_pos[2] - own_pos[2]>>
       IN  /\ ContainsEdge(game.graph, own_pos, opponent_pos)
           /\ jump_pos \in LegalDestinations(game, game.active_player)

\* ---------------------------------------------------------------------------
\* C37: the overlap and crossing checks for two walls, in either order

\* Step 2 of is_wall_placement_valid for wall w on board g
ConflictNow(g, w) ==
    HasWallConflict(g.hwall_positions, g.vwall_positions, w.coord, w.orientation)

\* Step 2 of is_wall_placement_valid for the wall `second` once the wall
\* `first` has joined the walls of board g
ConflictAfter(g, first, second) ==
    HasWallConflict(
        IF first.orientation = "h" THEN g.hwall_positions \cup {first.coord}
                                   ELSE g.hwall_positions,
        IF first.orientation = "v" THEN g.vwall_positions \cup {first.coord}
                                   ELSE g.vwall_positions,
        second.coord, second.orientation)

\* The overlap and crossing checks asked for `second` on a clone of the board
\* on which `first` has been placed
WallAfterWallCall(first, second) ==
    /\ ~aborted
    /\ last' = Answer("wall_after_wall", <<WallLabel(first), WallLabel(second)>>,
                      IF ConflictAfter(game, first, second) THEN "true" ELSE "false")
    /\ UNCHANGED <<game, aborted, moves, strategies, chosen, status, mcts, notation, anneal, tournament>>

NextConflict ==
    \/ \E m \in WallMoves : AddWallCall(m)
    \/ \E first \in Range(WallCandidates), second \in Range(WallCandidates) :
          WallAfterWallCall(first, second)

SpecConflict == Init /\ [][NextConflict]_vars

\* The wall of the enumeration that a wall move names
WallOf(wall_move) == CHOOSE w \in Range(WallCandidates) : WallLabel(w) = wall_move

\* C37: for two walls of the enumeration of get_legal_walls that the overlap
\* and crossing checks both allow on the present board, if the checks reject
\* the second once the first is placed, they reject the first once the
\* second is placed.
C37_WallConflictsSymmetric ==
    last.op = "wall_after_wall" =>
       \A first \in {WallOf(last.arg[1])}, second \in {WallOf(last.arg[2])} :
          (/\ ~ConflictNow(game, first)
           /\ ~ConflictNow(game, second)
           /\ last.ret = "true")
          => ConflictAfter(game, second, first)

\* ---------------------------------------------------------------------------
\* C38: the root of the Minimax search when the second player decides

\* The depth of the strategy asked on the endgame boards
EndgameDepth == 3

\* The plies played freely after the opening below
EndgamePlies == 4

\* The game loop's checked moves played one after the other
RECURSIVE Replay(_, _)
Replay(g, played) ==
    IF played = <<>> THEN g
    ELSE Replay(ApplyMove(g, Head(played)).game, Tail(played))

\* A lawful opening of Quoridor::new(Size, Walls, None): every move is
\* accepted by the checked calls and no pawn stands on its goal rank; after
\* it Player 2 is to move, holds one wall and Player 1 holds two
EndgameOpening ==
    << <<"c", "1">>, <<"b", "2">>, <<"c", "2">>, <<"a", "2", "v">>, <<"b", "1">>,
       <<"c", "2">>, <<"a", "1">> >>

InitEndgame ==
    /\ game = Replay(NewGame(Walls), EndgameOpening)
    /\ aborted = FALSE
    /\ anneal = NoAnneal
    /\ tournament = NoTournament
    /\ last = NoCall
    /\ moves = 0
    /\ strategies = [p \in Players |-> NewStrategy("minimax", <<>>)]
    /\ chosen = None
    /\ status = "playing"
    /\ mcts = NoSearch
    /\ notation = NoNotation

\* One more move of the game, accepted by the checked call
EndgamePly(m) ==
    /\ last.op = "none"
    /\ moves < EndgamePlies
    /\ GameUndecided(game)
    /\ \E r \in {ApplyMove(game, m)} :
         /\ ~r.panic
         /\ r.ret
         /\ game' = r.game
    /\ moves' = moves + 1
    /\ UNCHANGED <<aborted, last, strategies, chosen, status, mcts, notation, anneal, tournament>>

\* MinimaxStrategy::choose_move of a strategy of depth EndgameDepth with an
\* empty opening book: the moves it can return
MinimaxEndgameCall ==
    /\ last.op = "none"
    /\ moves = EndgamePlies
    /\ GameUndecided(game)
    /\ last' = Answer("choose_move", EndgameDepth, MinimaxSearch(game, EndgameDepth))
    /\ UNCHANGED <<game, aborted, moves, strategies, chosen, status, mcts, notation, anneal, tournament>>

NextEndgame ==
    \/ \E m \in CellLabels \cup WallMoves : EndgamePly(m)
    \/ MinimaxEndgameCall

SpecEndgame == InitEndgame /\ [][NextEndgame]_vars

\* C38: when Player 2 is to move and the search values the position after
\* one of its moves as a win of Player 2 and the position after another as a
\* win of Player 1, choose_move does not return the move valued as a win of
\* Player 1.
C38_MinimaxPlaysForDecidingPlayer ==
    last.op = "choose_move" /\ game.active_player = Player2 =>
       \A scored \in {ScoredMoves(game, AllMoves(game, Player2), last.arg)} :
          \A x \in scored, y \in scored :
             x[2] = NegInfinity /\ y[2] = Infinity => Some(y[1]) \notin last.ret

\* ---------------------------------------------------------------------------
\* C39: the moves the searches apply to their clones without validation

\* One unchecked call: the clone it is made on, the player whose move list
\* the move was taken from, and the move
Application(clone, player, move_str) ==
    [clone |-> clone, player |-> player, move_str |-> move_str]

\* minimax_alphabeta: the unchecked calls of a node and of the nodes below
\* it, were no branch cut off
RECURSIVE TreeApplications(_, _)
TreeApplications(g, depth) ==
    LET last_player == Opponent(g.active_player)
        current_player == g.active_player
    IN  IF g.pawn_positions[last_player] \in GoalPositions(last_player) \/ depth = 0
        THEN {}
        ELSE UNION {UNION {{Application(g, current_player, move_str)}
                             \cup (IF r.ret THEN TreeApplications(r.game, depth - 1) ELSE {}) :
                           r \in {ApplyUnchecked(g, move_str)}} :
                    move_str \in AllMoves(g, current_player)}

\* MinimaxStrategy::choose_move: the unchecked calls of the root loop and of
\* the searches it starts
MinimaxApplications(g, depth) ==
    LET current_player == g.active_player
    IN  IF WinningMoves(g, current_player) # {} THEN {}
        ELSE UNION {UNION {{Application(g, current_player, move_str)}
                             \cup (IF r.ret THEN TreeApplications(r.game, depth - 1) ELSE {}) :
                           r \in {ApplyUnchecked(g, move_str)}} :
                    move_str \in AllMoves(g, current_player)}

\* select_opponent_best_move: its unchecked calls
ResponseApplications(g) ==
    {Application(g, g.active_player, move_str) : move_str \in AllMoves(g, g.active_player)}

\* SimulatedAnnealingStrategy::choose_move: the unchecked calls of the global
\* loop, of select_opponent_best_move and of the local loop over every
\* candidate the random choices can draw
AnnealApplications(g) ==
    LET player == g.active_player
    IN  IF AllMoves(g, player) = {} \/ WinningMoves(g, player) # {} THEN {}
        ELSE UNION {UNION {{Application(g, player, candidate_first_move)}
                \cup (IF ~game_after_first.ret THEN {}
                      ELSE ResponseApplications(game_after_first.game)
                        \cup UNION {IF ~response.some THEN {}
                                    ELSE UNION {{Application(game_after_first.game,
                                                             game_after_first.game.active_player,
                                                             response.value)}
                                         \cup (IF ~game_after_opponent.ret THEN {}
                                               ELSE {Application(game_after_opponent.game, player,
                                                                 candidate_second_move) :
                                                     candidate_second_move \in
                                                       AllMoves(game_after_opponent.game, player)}) :
                                         game_after_opponent \in
                                           {ApplyUnchecked(game_after_first.game, response.value)}} :
                                    response \in SelectOpponentBestMove(game_after_first.game)}) :
                game_after_first \in {ApplyUnchecked(g, candidate_first_move)}} :
              candidate_first_move \in AllMoves(g, player)}

\* simulate_random_playout trying every cell of the board, not the legal
\* moves
PlayoutApplicationsAnyCell(g) ==
    {Application(g, g.active_player, mv) : mv \in CellLabels}

\* simulate_random_playout: the unchecked calls of one round on the playout's
\* board, made on a clone that only measures the distance
PlayoutApplications(g) ==
    LET player == g.active_player
    IN  IF \/ g.pawn_positions[Player1][1] = 0
           \/ g.pawn_positions[Player2][1] = Size - 1
           \/ ~(\/ DistanceToGoal(g, player) <= DistanceToGoal(g, Opponent(player))
                \/ g.walls_available[player] = 0)
        THEN {}
        ELSE {Application(g, player, mv) : mv \in GetLegalMoves(g, player)}

SearchKinds == {"minimax", "simulated_annealing", "mcts"}

Applications(kind, g) ==
    IF kind = "minimax" THEN MinimaxApplications(g, SearchDepth)
    ELSE IF kind = "simulated_annealing" THEN AnnealApplications(g)
    ELSE PlayoutApplications(g)

\* choose_move of a strategy of the kind on the board, or a playout round on
\* it: the unchecked calls it can make
UncheckedCalls(kind) ==
    /\ last.op = "none"
    /\ last' = Answer("unchecked_calls", kind, {a : a \in Applications(kind, game)})
    /\ UNCHANGED <<game, aborted, moves, strategies, chosen, status, mcts, notation, anneal, tournament>>

NextUnchecked ==
    \/ \E m \in CellLabels \cup WallMoves : Advance(m)
    \/ \E kind \in SearchKinds : UncheckedCalls(kind)

SpecUnchecked == Init /\ [][NextUnchecked]_vars

\* The board has a path for each pawn to its goal rank, no two of its walls
\* abut in the same orientation or cross, and no count of walls has
\* wrapped below zero
BoardInvariants(g) ==
    /\ \A p \in Players :
          /\ DistanceToGoal(g, p) < Unreachable
          /\ g.walls_available[p] \in 0..Walls
    /\ \A x \in g.hwall_positions :
          <<x[1], x[2] + 1>> \notin g.hwall_positions /\ x \notin g.vwall_positions
    /\ \A x \in g.vwall_positions :
          <<x[1] + 1, x[2]>> \notin g.vwall_positions

\* C39: every move MCTS, Minimax or Simulated Annealing applies to a clone
\* without validation is taken from the move list of the clone's player to
\* move and is a move the checked call accepts on the clone, and the board
\* after it has paths for both pawns, exclusive walls and wall counts that
\* did not go below zero.
C39_UncheckedOnlyOnLegalMoves ==
    last.op = "unchecked_calls" =>
       \A a \in last.ret :
          /\ a.player = a.clone.active_player
          /\ \E checked \in {ApplyMove(a.clone, a.move_str)} :
                /\ ~checked.panic
                /\ checked.ret
                /\ \E unchecked \in {ApplyUnchecked(a.clone, a.move_str)} :
                      /\ unchecked = checked
                      /\ BoardInvariants(unchecked.game)

\* Simulated Annealing has made unchecked calls, a wall of the local loop
\* among them, on a clone two plies below the asked board
C39_Witness ==
    /\ last.op = "unchecked_calls"
    /\ last.arg = "simulated_annealing"
    /\ \E a \in last.ret :
          /\ IsWallMove(a.move_str)
          /\ a.clone.active_player = game.active_player
          /\ a.clone # game
          /\ a.clone.walls_available # game.walls_available

-----------------------------------------------------------------------------
(* Tournament::run_tournament_parallel (quoridor-cli main.rs): the main      *)
(* thread cuts the match configurations into chunks and spawns one worker    *)
(* per chunk; a worker runs the matches of its chunk into a Vec of its own,  *)
(* then locks the shared Vec, extends it and keeps the guard to the end of   *)
(* its closure; the main thread joins the workers in the order it spawned    *)
(* them and copies the shared Vec.  A game of run_match is reduced to its    *)
(* end: the strategy in the first seat wins, the one in the second seat      *)
(* wins, or the move limit makes it a draw.                                  *)

\* The most threads thread::available_parallelism reports
MaxThreads == 3

\* The most strategies and openings of the tournament's lists
MaxStrategies == 3
MaxOpenings == 1

\* The most games of a match
MaxGames == 2

GameEnds == {"first_seat_wins", "second_seat_wins", "draw"}

\* The nested loops that build match_configs: every opening, every pair i < j
MatchConfigs(n_strategies, n_openings) ==
    [k \in 1 .. n_openings * ((n_strategies * (n_strategies - 1)) \div 2) |->
        CHOOSE config \in (1..n_strategies) \X (1..n_strategies) \X (1..n_openings) :
           /\ config[1] < config[2]
           /\ k = 1 + Cardinality({other \in (1..n_strategies) \X (1..n_strategies) \X (1..n_openings) :
                                      /\ other[1] < other[2]
                                      /\ \/ other[3] < config[3]
                                         \/ other[3] = config[3] /\ other[1] < config[1]
                                         \/ other[3] = config[3] /\ other[1] = config[1]
                                              /\ other[2] < config[2]})]

\* match_configs.chunks(configs_per_thread): the chunk of a thread_id
ChunkOf(match_configs, configs_per_thread, thread_id) ==
    SubSeq(match_configs, thread_id * configs_per_thread + 1,
           IF (thread_id + 1) * configs_per_thread < Len(match_configs)
           THEN (thread_id + 1) * configs_per_thread ELSE Len(match_configs))

ConfigsPerThread(total_matches, num_threads) ==
    (total_matches + num_threads - 1) \div num_threads

NumChunks(total_matches, configs_per_thread) ==
    (total_matches + configs_per_thread - 1) \div configs_per_thread

\* Tournament::run_match: the TournamentResult of the games' ends.  In game
\* game_num (from 0) strategy1 has the first seat when game_num is even.
RunMatch(config, games_per_match, ends) ==
    LET WinnerType(n) ==
            IF ends[n] = "first_seat_wins"
            THEN (IF (n - 1) % 2 = 0 THEN config[1] ELSE config[2])
            ELSE (IF (n - 1) % 2 = 0 THEN config[2] ELSE config[1])
        Won == {n \in 1..games_per_match : ends[n] # "draw"}
    IN  [strategy1 |-> config[1], strategy2 |-> config[2], opening |-> config[3],
         strategy1_wins |-> Cardinality({n \in Won : WinnerType(n) = config[1]}),
         strategy2_wins |-> Cardinality({n \in Won : WinnerType(n) # config[1]}),
         draws |-> Cardinality({n \in 1..games_per_match : ends[n] = "draw"}),
         games_played |-> games_per_match]

\* A worker storing its results over the shared ones
Replaced(shared_results, thread_results) == thread_results

\* shared_results_guard.extend(thread_results)
Extended(shared_results, thread_results) == shared_results \o thread_results

InitTournament ==
    /\ game = NewGame(Walls)
    /\ aborted = FALSE
    /\ anneal = NoAnneal
    /\ last = NoCall
    /\ moves = 0
    /\ strategies = [p \in Players |-> NoStrategy]
    /\ chosen = None
    /\ status = "playing"
    /\ mcts = NoSearch
    /\ notation = NoNotation
    /\ \E n_strategies \in 2..MaxStrategies, n_openings \in 1..MaxOpenings,
          games_per_match \in 1..MaxGames, num_threads \in 1..MaxThreads :
          tournament = [pc |-> "spawn",
                        games_per_match |-> games_per_match,
                        match_configs |-> MatchConfigs(n_strategies, n_openings),
                        num_threads |-> num_threads,
                        spawned |-> 0,
                        joined |-> 0,
                        workers |-> [thread_id \in 0 .. MaxThreads - 1 |->
                                       [pc |-> "unborn", thread_chunk |-> <<>>,
                                        thread_results |-> <<>>]],
                        mutex |-> "free",
                        results |-> <<>>,
                        final_results |-> <<>>]

ChunksToSpawn ==
    NumChunks(Len(tournament.match_configs),
              ConfigsPerThread(Len(tournament.match_configs), tournament.num_threads))

\* One round of the loop over the chunks: thread::spawn
Spawn ==
    /\ tournament.pc = "spawn"
    /\ tournament' =
         IF tournament.spawned = ChunksToSpawn
         THEN [tournament EXCEPT !.pc = "join"]
         ELSE [tournament EXCEPT
                 !.spawned = @ + 1,
                 !.workers[tournament.spawned] =
                    [pc |-> "running",
                     thread_chunk |->
                        ChunkOf(tournament.match_configs,
                                ConfigsPerThread(Len(tournament.match_configs),
                                                 tournament.num_threads),
                                tournament.spawned),
                     thread_results |-> <<>>]]
    /\ UNCHANGED <<game, aborted, last, moves, strategies, chosen, status, mcts, notation, anneal>>

\* A worker runs the next match of its chunk and pushes the result
WorkerRunsMatch(thread_id) ==
    /\ tournament.pc \in {"spawn", "join"}
    /\ tournament.workers[thread_id].pc = "running"
    /\ tournament.workers[thread_id].thread_chunk # <<>>
    /\ \E ends \in [1..tournament.games_per_match -> GameEnds] :
         tournament' = [tournament EXCEPT
            !.workers[thread_id].thread_results =
               Append(@, RunMatch(Head(tournament.workers[thread_id].thread_chunk),
                                  tournament.games_per_match, ends)),
            !.workers[thread_id].thread_chunk = Tail(@)]
    /\ UNCHANGED <<game, aborted, last, moves, strategies, chosen, status, mcts, notation, anneal>>

\* A worker past its chunk takes the lock and extends the shared Vec
WorkerExtends(thread_id) ==
    /\ tournament.pc \in {"spawn", "join"}
    /\ tournament.workers[thread_id].pc = "running"
    /\ tournament.workers[thread_id].thread_chunk = <<>>
    /\ tournament.mutex = "free"
    /\ tournament' = [tournament EXCEPT
          !.mutex = "held",
          !.results = Extended(@, tournament.workers[thread_id].thread_results),
          !.workers[thread_id].pc = "extended"]
    /\ UNCHANGED <<game, aborted, last, moves, strategies, chosen, status, mcts, notation, anneal>>

\* The worker's closure ends: the guard is dropped
WorkerEnds(thread_id) ==
    /\ tournament.pc \in {"spawn", "join"}
    /\ tournament.workers[thread_id].pc = "extended"
    /\ tournament' = [tournament EXCEPT
          !.mutex = "free",
          !.workers[thread_id].pc = "finished"]
    /\ UNCHANGED <<game, aborted, last, moves, strategies, chosen, status, mcts, notation, anneal>>

\* One round of the loop over the handles: handle.join() returns once the
\* worker has ended
Join ==
    /\ tournament.pc = "join"
    /\ tournament.joined < tournament.spawned
    /\ tournament.workers[tournament.joined].pc = "finished"
    /\ tournament' = [tournament EXCEPT !.joined = @ + 1]
    /\ UNCHANGED <<game, aborted, last, moves, strategies, chosen, status, mcts, notation, anneal>>

\* After the joins: self.results = results.lock().unwrap().clone()
CollectResults ==
    /\ tournament.pc = "join"
    /\ tournament.joined = tournament.spawned
    /\ tournament.mutex = "free"
    /\ tournament' = [tournament EXCEPT !.pc = "done", !.final_results = tournament.results]
    /\ UNCHANGED <<game, aborted, last, moves, strategies, chosen, status, mcts, notation, anneal>>

NextTournament ==
    \/ Spawn
    \/ \E thread_id \in 0 .. MaxThreads - 1 : WorkerRunsMatch(thread_id)
    \/ \E thread_id \in 0 .. MaxThreads - 1 : WorkerExtends(thread_id)
    \/ \E thread_id \in 0 .. MaxThreads - 1 : WorkerEnds(thread_id)
    \/ Join
    \/ CollectResults

SpecTournament == InitTournament /\ [][NextTournament]_vars

\* The main thread has joined every worker it spawned
AllJoined ==
    \/ tournament.pc = "done"
    \/ tournament.pc = "join" /\ tournament.joined = tournament.spawned

\* C40: once run_tournament_parallel has joined all its workers, whatever
\* the interleaving, the shared result list holds exactly one
\* TournamentResult for each match configuration (strategy pair and
\* opening), each with strategy1_wins + strategy2_wins + draws equal to
\* games_per_match; the list copied into self.results is that list.
C40_ParallelTournamentLosesNoResult ==
    /\ tournament.pc # "idle" /\ AllJoined =>
          /\ Len(tournament.results) = Len(tournament.match_configs)
          /\ \A k \in DOMAIN tournament.match_configs :
                Cardinality({i \in DOMAIN tournament.results :
                               <<tournament.results[i].strategy1,
                                 tournament.results[i].strategy2,
                                 tournament.results[i].opening>>
                                 = tournament.match_configs[k]}) = 1
          /\ \A i \in DOMAIN tournament.results :
                tournament.results[i].strategy1_wins + tournament.results[i].strategy2_wins
                  + tournament.results[i].draws = tournament.games_per_match
    /\ tournament.pc = "done" => tournament.final_results = tournament.results

\* Three workers have been joined after the last one extended the list
\* before the first, and a match was won once from each seat by the same
\* strategy
C40_Witness ==
    /\ tournament.pc = "done"
    /\ tournament.spawned = 3
    /\ tournament.final_results # <<>>
    /\ tournament.final_results[1] = tournament.workers[2].thread_results[1]
    /\ \E i \in DOMAIN tournament.final_results :
          /\ tournament.final_results[i].strategy2_wins = 2
          /\ tournament.games_per_match = 2

====
